---- MODULE Spec2Model ----
(***************************************************************************)
(* A model of the settings store of settings-kit (createSettingsStore):    *)
(* path reads and writes over a heap of JavaScript objects, the commit     *)
(* pipeline (swap, persistence save, sync push, onStateChange, notify),    *)
(* the subscriber registry, persistence and sync adapters.                 *)
(*                                                                         *)
(* JavaScript objects have identity: Object.is on two mappings compares    *)
(* references.  The model therefore keeps a heap of cells; a value is a    *)
(* primitive, undefined, null, or a reference to a heap cell.              *)
(***************************************************************************)
EXTENDS Integers, Sequences, FiniteSets, TLC

VARIABLES
    heap,          \* the JavaScript heap: a sequence of cells, address = index
    state,         \* `state` of createSettingsStore (a value)
    initialState,  \* `initialState` of createSettingsStore (a value)
    listeners,     \* `listeners`: a Set, kept in insertion order
    syncAdapters,  \* `syncAdapters`: a Set, kept in insertion order
    persistence,   \* the persistence option: [present, loadSync]
    memory,        \* what the persistence adapter holds (its `memory`)
    sessions,      \* per sync adapter: its profile and the phase of syncSettings
    pending,       \* per sync adapter: rejected push promises not yet handled
    hydration,     \* the suspended hydrate() call, if any
    dispatching,   \* the suspended dispatch() call, if any
    log,           \* the effects of the latest step, in order
    call,          \* the latest step: operation, arguments, outcome
    counts,        \* per sync adapter: push attempts, onError calls, commits seen
    snapshots,     \* every tree that was ever current, with its contents then
    ctor,          \* the constructor's argument: reference and contents
    focus,         \* a roving-focus list: its length, the focused index, the last move
    options,       \* the callbacks given to createSettingsStore: what they do
    ops            \* number of steps taken (bounds the run)

vars == <<heap, state, initialState, listeners, syncAdapters, persistence, memory,
          sessions, pending, hydration, dispatching, log, call, counts, snapshots, ctor,
          focus, options, ops>>

\* The number of operations of one run.
MaxOps == 3

----------------------------------------------------------------------------
(* Values and the heap *)

Undef == [t |-> "undef", v |-> 0]
Null == [t |-> "null", v |-> 0]
Prim(n) == [t |-> "prim", v |-> n]
Ref(a) == [t |-> "ref", v |-> a]

\* A cell is a mapping or an array: its fields and, as JavaScript keeps it,
\* the order in which its keys were inserted.
EmptyFields == [k \in {} |-> Undef]
Cell(kind, ord, f) == [kind |-> kind, ord |-> ord, f |-> f]
EmptyMap == Cell("map", <<>>, EmptyFields)

\* Object.is(left, right): primitives by value, objects by reference.
ObjectIs(left, right) == left = right

\* isObject(value): a non-null object that is not an array.
isObject(h, value) == value.t = "ref" /\ h[value.v].kind = "map"

isArray(h, value) == value.t = "ref" /\ h[value.v].kind = "arr"

\* if (persisted), if (incoming): JavaScript truthiness of a tree or null.
Truthy(value) == value.t = "ref"

\* cursor[key]: undefined when the key is absent.
Load(h, a, key) == IF key \in DOMAIN h[a].f THEN h[a].f[key] ELSE Undef

\* cursor[key] = value: an assignment to a cell of the heap, in place.
Store(h, a, key, value) ==
    [h EXCEPT ![a] = Cell(h[a].kind,
                          IF key \in DOMAIN h[a].f THEN h[a].ord ELSE Append(h[a].ord, key),
                          [k \in (DOMAIN h[a].f) \cup {key} |->
                              IF k = key THEN value ELSE h[a].f[k]])]

\* A new object: the heap with the cell appended; its address is Len of the result.
Alloc(h, cell) == Append(h, cell)

\* The contents of a value, as the set of its nodes <<path, kind, payload>>:
\* two values have the same contents iff they are deeply equal.
RECURSIVE FlattenAt(_, _, _, _)
FlattenAt(h, value, path, fuel) ==
    IF value.t # "ref"
    THEN {<<path, value.t, value.v>>}
    ELSE {<<path, h[value.v].kind, 0>>} \cup
         (IF fuel = 0 THEN {}
          ELSE UNION {FlattenAt(h, h[value.v].f[k], Append(path, k), fuel - 1) :
                         k \in DOMAIN h[value.v].f})

Flatten(h, value) == FlattenAt(h, value, <<>>, Len(h))

DeepEqual(h, left, right) == Flatten(h, left) = Flatten(h, right)

----------------------------------------------------------------------------
(* Path resolver *)

\* A path string is the sequence of its pieces between the dots:
\* "a.b" is <<"a", "b">>, "" is <<"">>, " a..b" is <<" a", "", "b">>.
\* String.prototype.trim on the pieces the model uses.
Trim(part) ==
    CASE part = " a" -> "a"
      [] part = "b " -> "b"
      [] part = " " -> ""
      [] OTHER -> part

\* parsePath: split("."), map(trim), filter(Boolean).
parsePath(path) ==
    SelectSeq([i \in 1..Len(path) |-> Trim(path[i])], LAMBDA part : part # "")

\* A faulty variant of getLoop: the walk goes into arrays as into mappings.
RECURSIVE getLoopWalksArrays(_, _, _, _)
getLoopWalksArrays(h, current, parts, i) ==
    IF i > Len(parts) THEN current
    ELSE IF current.t # "ref" \/ parts[i] \notin DOMAIN h[current.v].f
         THEN Undef
         ELSE getLoopWalksArrays(h, h[current.v].f[parts[i]], parts, i + 1)

RECURSIVE getLoop(_, _, _, _)
getLoop(h, current, parts, i) ==
    IF i > Len(parts) THEN current
    ELSE IF ~isObject(h, current) \/ parts[i] \notin DOMAIN h[current.v].f
         THEN Undef
         ELSE getLoop(h, h[current.v].f[parts[i]], parts, i + 1)

getByPath(h, input, path) ==
    LET parts == parsePath(path)
    IN IF Len(parts) = 0 THEN input ELSE getLoop(h, input, parts, 1)

\* { ...object }: a new cell with the same fields.  [h, a]: the heap and the
\* address of the copy.
ShallowClone(h, a) ==
    LET h1 == Alloc(h, Cell("map", h[a].ord, h[a].f)) IN [h |-> h1, a |-> Len(h1)]

\* A faulty variant of NewBranch: isObject(next) ? next : {}, the branch written in place.
NewBranchAlias(h, next) ==
    IF isObject(h, next) THEN [h |-> h, a |-> next.v]
    ELSE LET h1 == Alloc(h, EmptyMap) IN [h |-> h1, a |-> Len(h1)]

\* A faulty variant of NewBranch: an array on the path is spread into the new
\* branch like a mapping.
NewBranchSpreadsArrays(h, next) ==
    IF next.t = "ref" THEN ShallowClone(h, next.v)
    ELSE LET h1 == Alloc(h, EmptyMap) IN [h |-> h1, a |-> Len(h1)]

\* const branch = isObject(next) ? { ...next } : {}
NewBranch(h, next) ==
    IF isObject(h, next) THEN ShallowClone(h, next.v)
    ELSE LET h1 == Alloc(h, EmptyMap) IN [h |-> h1, a |-> Len(h1)]

\* A faulty variant of setLoop: cursor[key] = branch is missing, so the new branches
\* are never linked into the clone.
RECURSIVE setLoopUnlinked(_, _, _, _, _)
setLoopUnlinked(h, cursor, parts, index, value) ==
    IF index = Len(parts)
    THEN Store(h, cursor, parts[index], value)
    ELSE LET branch == NewBranch(h, Load(h, cursor, parts[index]))
         IN setLoopUnlinked(branch.h, branch.a, parts, index + 1, value)

\* The loop of setByPath and the final assignment; cursor is an address.
RECURSIVE setLoop(_, _, _, _, _)
setLoop(h, cursor, parts, index, value) ==
    IF index = Len(parts)
    THEN Store(h, cursor, parts[index], value)
    ELSE LET key == parts[index]
             next == Load(h, cursor, key)
             branch == NewBranch(h, next)
             h2 == Store(branch.h, cursor, key, Ref(branch.a))
         IN setLoop(h2, branch.a, parts, index + 1, value)

\* A faulty variant of CloneRoot: const cloneRoot = state, the root written in place.
CloneRootAlias(h, tree) == [h |-> h, a |-> tree.v]

\* const cloneRoot = { ...state }
CloneRoot(h, tree) == ShallowClone(h, tree.v)

\* setByPath(state, path, value): [h, r], the heap after and the tree returned.
setByPath(h, tree, path, value) ==
    LET parts == parsePath(path)
    IN IF Len(parts) = 0 THEN [h |-> h, r |-> tree]
       ELSE LET cloneRoot == CloneRoot(h, tree)
            IN [h |-> setLoop(cloneRoot.h, cloneRoot.a, parts, 1, value),
                r |-> Ref(cloneRoot.a)]

----------------------------------------------------------------------------
(* Structural merge engine *)

\* A faulty variant of CopyArray: [...right, null], one element too many.
CopyArrayLonger(h, a) ==
    LET h1 == Alloc(h, Cell("arr", Append(h[a].ord, "n"),
                            [k \in (DOMAIN h[a].f) \cup {"n"} |->
                                IF k = "n" THEN Null ELSE h[a].f[k]]))
    IN [h |-> h1, a |-> Len(h1)]

\* [...right]: a new array with the same elements.
CopyArray(h, a) ==
    LET h1 == Alloc(h, Cell("arr", h[a].ord, h[a].f)) IN [h |-> h1, a |-> Len(h1)]

\* deepMerge's mergeNode(left, right): [h, r], the heap after and the result.
\* deepMergeEntries is its loop over Object.entries(right), writing to output.
RECURSIVE deepMergeNode(_, _, _), deepMergeEntries(_, _, _, _)

\* A faulty variant of deepMergeNode: two arrays are merged element by
\* element, as two mappings are.
deepMergeNodeElementwise(h, left, right) ==
    IF isArray(h, right) /\ ~isArray(h, left)
    THEN LET c == CopyArray(h, right.v) IN [h |-> c.h, r |-> Ref(c.a)]
    ELSE IF isArray(h, right)
    THEN LET c == CopyArray(h, left.v)
         IN [h |-> deepMergeEntries(c.h, c.a, right.v, 1), r |-> Ref(c.a)]
    ELSE IF ~isObject(h, right)
    THEN [h |-> h, r |-> right]
    ELSE IF ~isObject(h, left)
    THEN LET c == ShallowClone(h, right.v) IN [h |-> c.h, r |-> Ref(c.a)]
    ELSE LET output == ShallowClone(h, left.v)
         IN [h |-> deepMergeEntries(output.h, output.a, right.v, 1),
             r |-> Ref(output.a)]

deepMergeNode(h, left, right) ==
    IF isArray(h, right)
    THEN LET c == CopyArray(h, right.v) IN [h |-> c.h, r |-> Ref(c.a)]
    ELSE IF ~isObject(h, right)
    THEN [h |-> h, r |-> right]
    ELSE IF ~isObject(h, left)
    THEN LET c == ShallowClone(h, right.v) IN [h |-> c.h, r |-> Ref(c.a)]
    ELSE LET output == ShallowClone(h, left.v)
         IN [h |-> deepMergeEntries(output.h, output.a, right.v, 1),
             r |-> Ref(output.a)]

deepMergeEntries(h, output, right, i) ==
    IF i > Len(h[right].ord) THEN h
    ELSE LET key == h[right].ord[i]
             m == deepMergeNode(h, Load(h, output, key), h[right].f[key])
         IN deepMergeEntries(Store(m.h, output, key, m.r), output, right, i + 1)

deepMerge(h, base, incoming) == deepMergeNode(h, base, incoming)

\* `${path}.${key}` when path is not the empty string, else key.
nextPath(path, key) == IF path = <<"">> THEN <<key>> ELSE Append(path, key)

\* mergeSkippingConflicts's mergeNode(left, right, path): [h, r, c], the heap
\* after, the result and the conflicts list after.
RECURSIVE skipMergeNode(_, _, _, _, _), skipMergeEntries(_, _, _, _, _, _)
skipMergeNode(h, left, right, path, conflicts) ==
    IF ObjectIs(left, right)
    THEN [h |-> h, r |-> left, c |-> conflicts]
    ELSE IF isArray(h, right)
    THEN IF left = Undef
         THEN LET c == CopyArray(h, right.v)
              IN [h |-> c.h, r |-> Ref(c.a), c |-> conflicts]
         ELSE [h |-> h, r |-> left, c |-> Append(conflicts, path)]
    ELSE IF ~isObject(h, right)
    THEN IF left = Undef
         THEN [h |-> h, r |-> right, c |-> conflicts]
         ELSE [h |-> h, r |-> left, c |-> Append(conflicts, path)]
    ELSE IF ~isObject(h, left)
    THEN IF left = Undef
         THEN LET c == ShallowClone(h, right.v)
              IN [h |-> c.h, r |-> Ref(c.a), c |-> conflicts]
         ELSE [h |-> h, r |-> left, c |-> Append(conflicts, path)]
    ELSE LET output == ShallowClone(h, left.v)
             done == skipMergeEntries(output.h, output.a, right.v, 1, path, conflicts)
         IN [h |-> done.h, r |-> Ref(output.a), c |-> done.c]

\* A faulty variant of skipMergeEntries: the entries of right are walked from
\* the last to the first.
skipMergeEntriesBackwards(h, output, right, i, path, conflicts) ==
    IF i > Len(h[right].ord) THEN [h |-> h, c |-> conflicts]
    ELSE LET key == h[right].ord[Len(h[right].ord) + 1 - i]
             m == skipMergeNode(h, Load(h, output, key), h[right].f[key],
                                nextPath(path, key), conflicts)
         IN skipMergeEntries(Store(m.h, output, key, m.r), output, right, i + 1,
                             path, m.c)

skipMergeEntries(h, output, right, i, path, conflicts) ==
    IF i > Len(h[right].ord) THEN [h |-> h, c |-> conflicts]
    ELSE LET key == h[right].ord[i]
             m == skipMergeNode(h, Load(h, output, key), h[right].f[key],
                                nextPath(path, key), conflicts)
         IN skipMergeEntries(Store(m.h, output, key, m.r), output, right, i + 1,
                             path, m.c)

\* mergeSkippingConflicts(current, incoming): [h, r, c].
mergeSkippingConflicts(h, current, incoming) ==
    skipMergeNode(h, current, incoming, <<"">>, <<>>)

----------------------------------------------------------------------------
(* The store: configuration and the inputs of the model *)

ListenerIds == {"L1", "L2"}

\* The callbacks of a store that only record what they are called with.
PlainOptions == [onStateChange |-> "records"]

\* Listeners whose callback calls back into the store: "LS" subscribes the
\* listener "L2" from inside its callback, "LU" calls the unsubscribe function
\* of the listener "L1" from inside its callback.
ReentrantListenerIds == {"LS", "LU"}
AdapterIds == {"A1", "A2"}

\* The heap at construction.  Cell 2 is the tree {a: {b: 1}, x: 1}; cell 5 is
\* {a: {b: 1}, x: 2}, whose branch a is another object with the contents of
\* cell 1; cell 6 is {a: 2, x: [1]}; cell 9 is {a: {b: 2, c: 1}, y: null};
\* cell 10 is {a: 2, x: [1]} again, in objects of its own; cell 12 is
\* {x: [3, 4], a: null, z: 1}.
InitHeap ==
    << Cell("map", <<"b">>, [k \in {"b"} |-> Prim(1)]),
       Cell("map", <<"a", "x">>, [k \in {"a", "x"} |-> IF k = "a" THEN Ref(1) ELSE Prim(1)]),
       Cell("arr", <<"0">>, [k \in {"0"} |-> Prim(1)]),
       Cell("map", <<"b">>, [k \in {"b"} |-> Prim(1)]),
       Cell("map", <<"a", "x">>, [k \in {"a", "x"} |-> IF k = "a" THEN Ref(4) ELSE Prim(2)]),
       Cell("map", <<"a", "x">>, [k \in {"a", "x"} |-> IF k = "a" THEN Prim(2) ELSE Ref(3)]),
       Cell("arr", <<"0">>, [k \in {"0"} |-> Prim(1)]),
       Cell("map", <<"b", "c">>, [k \in {"b", "c"} |-> IF k = "b" THEN Prim(2) ELSE Prim(1)]),
       Cell("map", <<"a", "y">>, [k \in {"a", "y"} |-> IF k = "a" THEN Ref(8) ELSE Null]),
       Cell("map", <<"a", "x">>, [k \in {"a", "x"} |-> IF k = "a" THEN Prim(2) ELSE Ref(7)]),
       Cell("arr", <<"0", "1">>, [k \in {"0", "1"} |-> IF k = "0" THEN Prim(3) ELSE Prim(4)]),
       Cell("map", <<"x", "a", "z">>,
            [k \in {"a", "x", "z"} |->
                IF k = "x" THEN Ref(11) ELSE IF k = "a" THEN Null ELSE Prim(1)]) >>

TreeA == Ref(2)
TreeB == Ref(5)
TreeC == Ref(6)
TreeD == Ref(9)
TreeE == Ref(10)
TreeF == Ref(12)

\* Path strings passed to get and set: "", "a", " a..b".
Paths == { <<"">>, <<"a">>, <<" a", "", "b">> }

\* Values passed to set: a primitive and a mapping (and, in Next, whatever
\* is at the path already, which may be undefined).
InputValues == { Prim(2), Ref(4) }

\* Trees passed to setState, importSettings, and held by the remote ends.
InputTrees == { TreeB, TreeC }

\* What persistence.save or adapter.push does when called: "ok", it returns
\* (or its promise resolves); "reject", it returns a promise that rejects;
\* "throw", it throws synchronously.
Outcomes == { "ok", "reject", "throw" }

\* The persistence option of the store: absent, or an adapter with or without
\* loadSync, and what its save does.
Persistence(present, loadSync, save) ==
    [present |-> present, loadSync |-> loadSync, save |-> save]

PersistenceOptions ==
    { Persistence(FALSE, FALSE, "ok"),
      Persistence(TRUE, TRUE, "ok"),
      Persistence(TRUE, FALSE, "ok"),
      Persistence(TRUE, TRUE, "reject"),
      Persistence(TRUE, TRUE, "throw") }

\* Sync adapters (SettingsSyncAdapter): which optional members they have and
\* what their push does.
Profile(pull, subscribe, validate, merge, onError, push) ==
    [pull |-> pull, subscribe |-> subscribe, validate |-> validate,
     merge |-> merge, onError |-> onError, push |-> push]

AdapterProfiles ==
    { Profile(TRUE, TRUE, FALSE, FALSE, FALSE, "reject"),
      Profile(TRUE, TRUE, TRUE, TRUE, TRUE, "ok"),
      Profile(FALSE, FALSE, FALSE, FALSE, TRUE, "reject"),
      Profile(FALSE, TRUE, FALSE, FALSE, TRUE, "throw") }

NoProfile == Profile(FALSE, FALSE, FALSE, FALSE, FALSE, "ok")

\* An adapter's validate: a type guard that wants x to be a primitive.
adapterValidate(h, candidate) ==
    /\ isObject(h, candidate)
    /\ "x" \in DOMAIN h[candidate.v].f
    /\ h[candidate.v].f["x"].t = "prim"

----------------------------------------------------------------------------
(* The commit pipeline.  A machine is the part of the store a call works on:
   [state, memory, log, pending, counts, thrown]; thrown says the call has
   thrown, and then nothing more of it runs. *)

Ev(e, id, s, p, src) ==
    [e |-> e, id |-> id, s |-> s, p |-> p, src |-> src,
     hasPath |-> FALSE, path |-> <<>>, value |-> Undef, pv |-> Undef]

EvPath(e, s, p, src, path, value, pv) ==
    [e |-> e, id |-> "", s |-> s, p |-> p, src |-> src,
     hasPath |-> TRUE, path |-> path, value |-> value, pv |-> pv]

Machine ==
    [state |-> state, memory |-> memory, log |-> <<>>, pending |-> pending,
     counts |-> counts, thrown |-> FALSE, listeners |-> listeners]

Emit(m, ev) == [m EXCEPT !.log = Append(@, ev)]

\* The members of a Set kept as a sequence.
Has(set, x) == \E i \in 1..Len(set) : set[i] = x
SetAdd(set, x) == IF Has(set, x) THEN set ELSE Append(set, x)
SetDelete(set, x) == SelectSeq(set, LAMBDA y : y # x)

\* The position of the entry being visited after the callback has changed the
\* Set: an entry deleted at or before it moves the later entries up by one.
visitedIndex(before, after, i) ==
    Cardinality({j \in 1..i : \E k \in 1..Len(after) : after[k] = before[j]})

\* The callback of a listener, run on the machine of the call that notifies:
\* "LS" calls store.subscribe, "LU" an unsubscribe function, "LR" calls
\* store.reset(); the others only read.
RECURSIVE commitState(_, _, _, _, _)
listenerCallback(m, l) ==
    CASE l = "LS" -> [m EXCEPT !.listeners = SetAdd(@, "L2")]
      [] l = "LU" -> [m EXCEPT !.listeners = SetDelete(@, "L1")]
      [] l = "LR" -> commitState(m, initialState,
                                 Ev("stateChange", "", initialState, m.state, "reset"),
                                 TRUE, TRUE)
      [] OTHER -> m

\* notify: listeners.forEach((listener) => listener()).
RECURSIVE notifyFrom(_, _)
notifyFrom(m, i) ==
    IF i > Len(m.listeners) THEN m
    ELSE LET l == m.listeners[i]
             after == listenerCallback(Emit(m, Ev("notify", l, m.state, m.state, "")), l)
         IN notifyFrom(after, visitedIndex(m.listeners, after.listeners, i) + 1)

notify(m) == notifyFrom(m, 1)

\* persist(nextState): void persistence.save(nextState).
persist(m, nextState) ==
    IF ~persistence.present THEN m
    ELSE LET called == Emit(m, Ev("save", "", nextState, nextState, ""))
         IN CASE persistence.save = "ok" -> [called EXCEPT !.memory = nextState]
              [] persistence.save = "reject" -> called
              \* a storage with room for one write: the write succeeds while
              \* nothing is stored and throws afterwards
              [] persistence.save = "full" /\ ~Truthy(m.memory) ->
                    [called EXCEPT !.memory = nextState]
              [] OTHER -> [called EXCEPT !.thrown = TRUE]

\* syncPush(nextState): for each adapter,
\* Promise.resolve(adapter.push(nextState)).catch(onError).
RECURSIVE syncPushFrom(_, _, _)
syncPushFrom(m, nextState, i) ==
    IF i > Len(syncAdapters) THEN m
    ELSE LET a == syncAdapters[i]
             called == [Emit(m, Ev("push", a, nextState, nextState, ""))
                           EXCEPT !.counts[a].push = @ + 1]
         IN CASE sessions[a].profile.push = "ok" ->
                    syncPushFrom(called, nextState, i + 1)
              [] sessions[a].profile.push = "reject" ->
                    syncPushFrom([called EXCEPT !.pending[a] = @ + 1], nextState, i + 1)
              [] OTHER -> [called EXCEPT !.thrown = TRUE]

syncPush(m, nextState) == syncPushFrom(m, nextState, 1)

\* The swap of commitState: state = nextState.  The log keeps it as an event,
\* and each registered adapter counts the commits it is due a push of.
swap(m, nextState, src, doSync) ==
    [Emit(m, Ev("swap", "", nextState, m.state, src)) EXCEPT
        !.state = nextState,
        !.counts = [a \in AdapterIds |->
                       IF doSync /\ \E i \in 1..Len(syncAdapters) : syncAdapters[i] = a
                       THEN [@[a] EXCEPT !.due = @ + 1] ELSE @[a]]]

\* onStateChange?.({...event, state: nextState, previousState}).
\* The callback of options "reenters" answers a commit made by set with
\* store.setState(TreeC); the callback of PlainOptions only records.
onStateChange(m, ev) ==
    IF options.onStateChange = "reenters" /\ ev.src = "set"
    THEN commitState(Emit(m, ev), TreeC,
                     Ev("stateChange", "", TreeC, m.state, "setState"), TRUE, TRUE)
    ELSE Emit(m, ev)

\* A faulty variant of commitState: notify() runs right after the swap, before the save
\* and the pushes.
commitStateNotifyFirst(m, nextState, ev, doPersist, doSync) ==
    IF ObjectIs(nextState, m.state) THEN m
    ELSE LET m1 == notify(swap(m, nextState, ev.src, doSync))
             m2 == IF doPersist THEN persist(m1, nextState) ELSE m1
             m3 == IF ~m2.thrown /\ doSync THEN syncPush(m2, nextState) ELSE m2
         IN IF ~m3.thrown
            THEN onStateChange(m3, [ev EXCEPT !.s = nextState, !.p = m.state])
            ELSE m3

\* A faulty variant of commitState: options.persist and options.sync are ignored.
commitStateIgnoresOptions(m, nextState, ev, doPersist, doSync) ==
    IF ObjectIs(nextState, m.state) THEN m
    ELSE LET m1 == swap(m, nextState, ev.src, TRUE)
             m2 == persist(m1, nextState)
             m3 == IF ~m2.thrown THEN syncPush(m2, nextState) ELSE m2
             m4 == IF ~m3.thrown
                   THEN onStateChange(m3, [ev EXCEPT !.s = nextState, !.p = m.state])
                   ELSE m3
         IN IF ~m4.thrown THEN notify(m4) ELSE m4

\* commitState(nextState, event, options); ev is the onStateChange event.
\* A faulty variant of commitState: the listeners are notified before
\* onStateChange is called.
commitStateEventAfterNotify(m, nextState, ev, doPersist, doSync) ==
    IF ObjectIs(nextState, m.state) THEN m
    ELSE LET m1 == swap(m, nextState, ev.src, doSync)
             m2 == IF doPersist THEN persist(m1, nextState) ELSE m1
             m3 == IF ~m2.thrown /\ doSync THEN syncPush(m2, nextState) ELSE m2
             m4 == IF ~m3.thrown THEN notify(m3) ELSE m3
         IN IF ~m4.thrown
            THEN onStateChange(m4, [ev EXCEPT !.s = nextState, !.p = m.state])
            ELSE m4

commitState(m, nextState, ev, doPersist, doSync) ==
    IF ObjectIs(nextState, m.state) THEN m
    ELSE LET m1 == swap(m, nextState, ev.src, doSync)
             m2 == IF doPersist THEN persist(m1, nextState) ELSE m1
             m3 == IF ~m2.thrown /\ doSync THEN syncPush(m2, nextState) ELSE m2
             m4 == IF ~m3.thrown
                   THEN onStateChange(m3, [ev EXCEPT !.s = nextState, !.p = m.state])
                   ELSE m3
         IN IF ~m4.thrown THEN notify(m4) ELSE m4

----------------------------------------------------------------------------
(* The store's operations, on a machine m and a heap h: each gives [m, h] *)

\* A faulty variant of setIsNoop: previousValue === value checked for primitives only.
setIsNoopPrimitivesOnly(previousValue, value) ==
    value.t = "prim" /\ ObjectIs(previousValue, value)

\* if (Object.is(previousValue, value)) return;
setIsNoop(previousValue, value) == ObjectIs(previousValue, value)

\* store.set(path, value)
storeSet(m, h, path, value) ==
    LET previousValue == getByPath(h, m.state, path)
        next == setByPath(h, m.state, path, value)
    IN IF setIsNoop(previousValue, value) THEN [m |-> m, h |-> next.h]
       ELSE LET m1 == commitState(m, next.r,
                          EvPath("stateChange", next.r, m.state, "set", path, value,
                                 previousValue),
                          TRUE, TRUE)
            IN [m |-> IF m1.thrown THEN m1
                      ELSE Emit(m1, EvPath("onChange", next.r, m.state, "set", path,
                                           value, previousValue)),
                h |-> next.h]

\* A faulty variant of storeSetState: a tree whose contents equal the current
\* state's is not committed.
storeSetStateSkipsEqualContents(m, h, nextState) ==
    [m |-> IF DeepEqual(h, nextState, m.state) THEN m
           ELSE commitState(m, nextState,
                            Ev("stateChange", "", nextState, m.state, "setState"),
                            TRUE, TRUE),
     h |-> h]

\* setState(updater), the updater already applied: nextState is its result.
storeSetState(m, h, nextState) ==
    [m |-> commitState(m, nextState, Ev("stateChange", "", nextState, m.state, "setState"),
                       TRUE, TRUE),
     h |-> h]

\* An updater of the caller's: (current) => ({ ...current, x: 2 }).
spreadUpdater(h, current) ==
    LET c == ShallowClone(h, current.v)
    IN [h |-> Store(c.h, c.a, "x", Prim(2)), r |-> Ref(c.a)]

\* A faulty variant of storeReset: resets to what the persistence adapter holds.
storeResetToPersisted(m, h) ==
    LET target == IF Truthy(m.memory) THEN m.memory ELSE initialState
    IN [m |-> commitState(m, target, Ev("stateChange", "", target, m.state, "reset"),
                          TRUE, TRUE),
        h |-> h]

\* store.reset()
storeReset(m, h) ==
    [m |-> commitState(m, initialState, Ev("stateChange", "", initialState, m.state, "reset"),
                       TRUE, TRUE),
     h |-> h]

\* The merge step of importSettings: [h, r, c].
importMerge(h, current, incoming, strategy) ==
    CASE strategy = "replace" -> [h |-> h, r |-> incoming, c |-> <<>>]
      [] strategy = "merge" ->
            LET d == deepMerge(h, current, incoming) IN [h |-> d.h, r |-> d.r, c |-> <<>>]
      [] OTHER -> mergeSkippingConflicts(h, current, incoming)

\* An import validate option of the caller's: the same guard as the adapters'.
importValidate(h, candidate) == adapterValidate(h, candidate)

\* A faulty variant of importStrategy: options?.strategy ?? "merge".
importStrategyDefaultMerge(option) == IF option = "none" THEN "merge" ELSE option

\* const strategy = options?.strategy ?? "replace"; "none" is no option given.
importStrategy(option) == IF option = "none" THEN "replace" ELSE option

\* What importSettings gives its caller: the SettingsImportResult it returns,
\* or (err) the error it throws: "shape" for "Imported settings must be an
\* object.", "validation" for "Imported settings failed validation.".
ImportResult(applied, strategy, conflicts, err) ==
    [applied |-> applied, strategy |-> strategy, conflicts |-> conflicts, err |-> err]

\* A faulty variant of storeImport: options.validate runs before the shape check.
storeImportValidateFirst(m, h, candidate, option, validate) ==
    LET strategy == importStrategy(option)
    IN IF validate /\ ~importValidate(h, candidate)
       THEN [m |-> [m EXCEPT !.thrown = TRUE], h |-> h,
             res |-> ImportResult(FALSE, "", <<>>, "validation")]
       ELSE IF ~isObject(h, candidate)
       THEN [m |-> [m EXCEPT !.thrown = TRUE], h |-> h,
             res |-> ImportResult(FALSE, "", <<>>, "shape")]
       ELSE LET merged == importMerge(h, m.state, candidate, strategy)
                applied == ~ObjectIs(merged.r, m.state)
            IN [m |-> IF applied
                      THEN commitState(m, merged.r,
                               Ev("stateChange", "", merged.r, m.state, "import"),
                               TRUE, TRUE)
                      ELSE m,
                h |-> merged.h,
                res |-> ImportResult(applied, strategy, merged.c, "")]

\* store.importSettings(blob, options), blob already structured: [m, h, res].
storeImport(m, h, candidate, option, validate) ==
    LET strategy == importStrategy(option)
    IN IF ~isObject(h, candidate)
       THEN [m |-> [m EXCEPT !.thrown = TRUE], h |-> h,
             res |-> ImportResult(FALSE, "", <<>>, "shape")]
       ELSE IF validate /\ ~importValidate(h, candidate)
       THEN [m |-> [m EXCEPT !.thrown = TRUE], h |-> h,
             res |-> ImportResult(FALSE, "", <<>>, "validation")]
       ELSE LET merged == importMerge(h, m.state, candidate, strategy)
                applied == ~ObjectIs(merged.r, m.state)
            IN [m |-> IF applied
                      THEN commitState(m, merged.r,
                               Ev("stateChange", "", merged.r, m.state, "import"),
                               TRUE, TRUE)
                      ELSE m,
                h |-> merged.h,
                res |-> ImportResult(applied, strategy, merged.c, "")]

\* JSON.parse(JSON.stringify(value)), the default serialize of exportSettings
\* followed by the default deserialize of importSettings: [h, r].  The copy
\* is made of new objects; a key of a mapping whose value is undefined is
\* left out, an undefined element of an array becomes null.
RECURSIVE jsonCloneNode(_, _), jsonCloneEntries(_, _, _, _)
jsonCloneNode(h, value) ==
    IF value.t # "ref" THEN [h |-> h, r |-> value]
    ELSE LET h1 == Alloc(h, Cell(h[value.v].kind, <<>>, EmptyFields))
         IN [h |-> jsonCloneEntries(h1, Len(h1), value.v, 1), r |-> Ref(Len(h1))]

\* A faulty variant of jsonCloneEntries: a key whose value is null is left
\* out as well.
jsonCloneEntriesDropsNull(h, output, from, i) ==
    IF i > Len(h[from].ord) THEN h
    ELSE LET key == h[from].ord[i]
             v == h[from].f[key]
         IN IF v \in {Undef, Null} /\ h[from].kind = "map"
            THEN jsonCloneEntries(h, output, from, i + 1)
            ELSE LET c == jsonCloneNode(h, IF v = Undef THEN Null ELSE v)
                 IN jsonCloneEntries(Store(c.h, output, key, c.r), output, from, i + 1)

jsonCloneEntries(h, output, from, i) ==
    IF i > Len(h[from].ord) THEN h
    ELSE LET key == h[from].ord[i]
             v == h[from].f[key]
         IN IF v = Undef /\ h[from].kind = "map"
            THEN jsonCloneEntries(h, output, from, i + 1)
            ELSE LET c == jsonCloneNode(h, IF v = Undef THEN Null ELSE v)
                 IN jsonCloneEntries(Store(c.h, output, key, c.r), output, from, i + 1)

\* The candidate importSettings decodes from the blob exportSettings() gave
\* for the tree s.
exportedCandidate(h, s) == jsonCloneNode(h, s)

\* An adapter's merge: deepMerge of the current and the incoming tree.
adapterMerge(h, current, incoming) == deepMerge(h, current, incoming)

\* A faulty variant of syncCommit: commitState(merged, { source: "sync" }).
syncCommitPushes(m, h, a, incoming) ==
    LET merged == IF sessions[a].profile.merge THEN adapterMerge(h, m.state, incoming)
                  ELSE [h |-> h, r |-> incoming]
    IN [m |-> commitState(m, merged.r, Ev("stateChange", a, merged.r, m.state, "sync"),
                          TRUE, TRUE),
        h |-> merged.h]

\* const merged = adapter.merge ? adapter.merge(store.getState(), incoming) : incoming;
\* commitState(merged, { source: "sync" }, { sync: false });
syncCommit(m, h, a, incoming) ==
    LET merged == IF sessions[a].profile.merge THEN adapterMerge(h, m.state, incoming)
                  ELSE [h |-> h, r |-> incoming]
    IN [m |-> commitState(m, merged.r, Ev("stateChange", a, merged.r, m.state, "sync"),
                          TRUE, FALSE),
        h |-> merged.h]

----------------------------------------------------------------------------
(* Hooks over the store *)

\* A faulty variant of useSettingDirty: values are compared by their contents.
useSettingDirtyByContents(h, current, initial, path) ==
    ~DeepEqual(h, getByPath(h, current, path), getByPath(h, initial, path))

\* useSettingDirty(path) with the default options (baseline "initial",
\* isEqual Object.is), on a store whose getState() is current and whose
\* getInitialState() is initial.
useSettingDirty(h, current, initial, path) ==
    ~ObjectIs(getByPath(h, current, path), getByPath(h, initial, path))

----------------------------------------------------------------------------
(* Keyboard navigation *)

\* A faulty variant of getNextIndex: prev does not wrap below 0.
getNextIndexNoWrapBack(currentIndex, total, direction) ==
    IF total <= 0 THEN -1
    ELSE IF currentIndex < 0 \/ currentIndex >= total THEN 0
    ELSE IF direction = "next" THEN (currentIndex + 1) % total
    ELSE IF currentIndex = 0 THEN 0 ELSE currentIndex - 1

\* getNextIndex(currentIndex, total, direction)
getNextIndex(currentIndex, total, direction) ==
    IF total <= 0 THEN -1
    ELSE IF currentIndex < 0 \/ currentIndex >= total THEN 0
    ELSE IF direction = "next" THEN (currentIndex + 1) % total
    ELSE (currentIndex - 1 + total) % total

\* The list of a store model: no list.
NoFocus == [currentIndex |-> 0, total |-> 0, from |-> 0, direction |-> "", moves |-> 0]

----------------------------------------------------------------------------
(* Initial states: the store as createSettingsStore returns it *)

NoResult == [applied |-> FALSE, strategy |-> "", conflicts |-> <<>>, err |-> ""]

\* The record of a step: the operation, its arguments, and what the store
\* was when it began.
Call(op, path, value, id, res) ==
    [op |-> op, path |-> path, value |-> value, id |-> id,
     pv |-> getByPath(heap, state, path), before |-> state, thrown |-> FALSE,
     lsn |-> listeners, ads |-> syncAdapters, res |-> res, validate |-> FALSE]

Idle == [active |-> FALSE, loaded |-> Null]
NoDispatch == [active |-> FALSE, type |-> "", path |-> <<>>, value |-> Undef]

\* A faulty variant of Init: persistence.loadSync is not consulted.
InitWithoutLoadSync ==
    /\ heap = InitHeap
    /\ initialState = TreeA
    /\ persistence \in PersistenceOptions
    /\ memory = IF persistence.present /\ persistence.save = "ok" THEN TreeB ELSE Null
    /\ state = initialState
    /\ listeners = <<>>
    /\ syncAdapters = <<>>
    /\ sessions = [a \in AdapterIds |-> [phase |-> "none", profile |-> NoProfile]]
    /\ pending = [a \in AdapterIds |-> 0]
    /\ hydration = Idle
    /\ dispatching = NoDispatch
    /\ log = <<>>
    /\ call = [op |-> "create", path |-> <<>>, value |-> Undef, id |-> "",
               pv |-> Undef, before |-> initialState, thrown |-> FALSE,
               lsn |-> <<>>, ads |-> <<>>, res |-> NoResult, validate |-> FALSE]
    /\ counts = [a \in AdapterIds |-> [push |-> 0, err |-> 0, due |-> 0]]
    /\ snapshots = {<<initialState, Flatten(heap, initialState)>>}
    /\ ctor = <<initialState, Flatten(heap, initialState)>>
    /\ focus = NoFocus
    /\ options = PlainOptions
    /\ ops = 0

Init ==
    /\ heap = InitHeap
    /\ initialState = TreeA
    /\ persistence \in PersistenceOptions
    \* an adapter whose save works holds a tree saved earlier
    /\ memory = IF persistence.present /\ persistence.save = "ok" THEN TreeB ELSE Null
    \* let state = initialState; if (persistence?.loadSync) { ... state = persisted }
    /\ state = IF persistence.loadSync /\ Truthy(memory) THEN memory ELSE initialState
    /\ listeners = <<>>
    /\ syncAdapters = <<>>
    /\ sessions = [a \in AdapterIds |-> [phase |-> "none", profile |-> NoProfile]]
    /\ pending = [a \in AdapterIds |-> 0]
    /\ hydration = Idle
    /\ dispatching = NoDispatch
    /\ log = <<>>
    /\ call = [op |-> "create", path |-> <<>>, value |-> Undef, id |-> "",
               pv |-> Undef, before |-> initialState, thrown |-> FALSE,
               lsn |-> <<>>, ads |-> <<>>, res |-> NoResult, validate |-> FALSE]
    /\ counts = [a \in AdapterIds |-> [push |-> 0, err |-> 0, due |-> 0]]
    /\ snapshots = {<<initialState, Flatten(heap, initialState)>>,
                    <<state, Flatten(heap, state)>>}
    /\ ctor = <<initialState, Flatten(heap, initialState)>>
    /\ focus = NoFocus
    /\ options = PlainOptions
    /\ ops = 0

----------------------------------------------------------------------------
(* Actions *)

\* The trees that became current in a step, with their contents after it.
Committed(lg, h) ==
    {<<lg[i].s, Flatten(h, lg[i].s)>> : i \in {j \in 1..Len(lg) : lg[j].e = "swap"}}

\* The variables a call leaves, from the machine and heap it ended with.
Finish(r, c) ==
    /\ heap' = r.h
    /\ state' = r.m.state
    /\ memory' = r.m.memory
    /\ pending' = r.m.pending
    /\ counts' = r.m.counts
    /\ listeners' = r.m.listeners
    /\ log' = r.m.log
    /\ call' = [c EXCEPT !.thrown = r.m.thrown]
    /\ snapshots' = snapshots \cup Committed(r.m.log, r.h)
    /\ ops' = ops + 1
    /\ UNCHANGED <<initialState, persistence, ctor, focus, options>>

Set(path, value) ==
    /\ ops < MaxOps
    /\ Finish(storeSet(Machine, heap, path, value), Call("set", path, value, "", NoResult))
    /\ UNCHANGED <<syncAdapters, sessions, hydration, dispatching>>

SetState(nextState) ==
    /\ ops < MaxOps
    /\ Finish(storeSetState(Machine, heap, nextState),
              Call("setState", <<>>, nextState, "", NoResult))
    /\ UNCHANGED <<syncAdapters, sessions, hydration, dispatching>>

SetStateUpdater ==
    /\ ops < MaxOps
    /\ LET next == spreadUpdater(heap, state)
       IN Finish(storeSetState(Machine, next.h, next.r),
                 Call("setState", <<>>, next.r, "", NoResult))
    /\ UNCHANGED <<syncAdapters, sessions, hydration, dispatching>>

Reset ==
    /\ ops < MaxOps
    /\ Finish(storeReset(Machine, heap), Call("reset", <<>>, Undef, "", NoResult))
    /\ UNCHANGED <<syncAdapters, sessions, hydration, dispatching>>

ImportSettings(candidate, option, validate) ==
    /\ ops < MaxOps
    /\ LET r == storeImport(Machine, heap, candidate, option, validate)
       IN Finish(r, [Call("import", <<>>, candidate, option, r.res)
                        EXCEPT !.validate = validate])
    /\ UNCHANGED <<syncAdapters, sessions, hydration, dispatching>>

\* A step that commits nothing and touches no tree.
Quiet(c, lg) ==
    /\ call' = c
    /\ log' = lg
    /\ ops' = ops + 1
    /\ UNCHANGED <<heap, state, initialState, persistence, memory, counts, snapshots, ctor,
                   focus, options>>

\* blob = store.exportSettings(), then importSettings(blob, {strategy:
\* "replace"}) on a store newly constructed with the same initialState: from
\* this step on the variables are those of the new store (call.before is the
\* exported state).
ExportToFresh ==
    /\ ops < MaxOps
    /\ LET blob == exportedCandidate(heap, state)
           fresh == [Machine EXCEPT !.state = initialState]
           r == storeImport(fresh, blob.h, blob.r, "replace", FALSE)
       IN Finish(r, Call("roundTrip", <<>>, blob.r, "replace", r.res))
    /\ UNCHANGED <<syncAdapters, sessions, hydration, dispatching>>


\* store.subscribe(listener): listeners.add(listener)
Subscribe(l) ==
    /\ ops < MaxOps
    \* the listeners are interchangeable: L1 is the one that subscribes first
    /\ l = "L2" => Has(listeners, "L1")
    /\ listeners' = SetAdd(listeners, l)
    /\ Quiet(Call("subscribe", <<>>, Undef, l, NoResult), <<>>)
    /\ UNCHANGED <<syncAdapters, sessions, pending, hydration, dispatching>>

\* The function subscribe returned: listeners.delete(listener)
Unsubscribe(l) ==
    /\ ops < MaxOps
    /\ Has(listeners, l)
    /\ listeners' = SetDelete(listeners, l)
    /\ Quiet(Call("unsubscribe", <<>>, Undef, l, NoResult), <<>>)
    /\ UNCHANGED <<syncAdapters, sessions, pending, hydration, dispatching>>

\* store.hydrate() up to its await: persistence.load() is called.
HydrateCall ==
    /\ ops < MaxOps
    /\ ~hydration.active
    /\ hydration' = IF persistence.present THEN [active |-> TRUE, loaded |-> memory]
                    ELSE Idle
    /\ Quiet(Call("hydrate", <<>>, Undef, "", NoResult), <<>>)
    /\ UNCHANGED <<listeners, syncAdapters, sessions, pending, dispatching>>

\* store.hydrate() after its await.
HydrateResume ==
    /\ ops < MaxOps
    /\ hydration.active
    /\ hydration' = Idle
    /\ LET m == IF Truthy(hydration.loaded)
                THEN commitState(Machine, hydration.loaded,
                         Ev("stateChange", "", hydration.loaded, state, "hydrate"),
                         FALSE, FALSE)
                ELSE Machine
       IN Finish([m |-> m, h |-> heap],
                 Call("hydrated", <<>>, hydration.loaded, "", NoResult))
    /\ UNCHANGED <<syncAdapters, sessions, dispatching>>

\* store.syncSettings(adapter) up to its first await: the adapter joins
\* syncAdapters; with a pull the call suspends, without one it goes on to
\* adapter.subscribe and returns the stop function.
SyncSettings(a, profile) ==
    /\ ops < MaxOps
    /\ sessions[a].phase = "none"
    \* the adapters are interchangeable: A1 is the one that registers first
    /\ a = "A2" => sessions["A1"].phase # "none"
    /\ syncAdapters' = SetAdd(syncAdapters, a)
    /\ sessions' = [sessions EXCEPT ![a] =
                      [phase |-> IF profile.pull THEN "pulling" ELSE "active",
                       profile |-> profile]]
    /\ Quiet(Call("syncSettings", <<>>, Undef, a, NoResult),
             IF profile.pull THEN <<Ev("pull", a, state, state, "")>>
             ELSE IF profile.subscribe THEN <<Ev("subscribe", a, state, state, "")>>
             ELSE <<>>)
    /\ UNCHANGED <<listeners, pending, hydration, dispatching>>

\* A faulty variant of SyncPulled: a pulled tree that fails validation is
\* dropped and the setup goes on.
SyncPulledDropsInvalid(a, rejected, incoming) ==
    /\ ops < MaxOps
    /\ sessions[a].phase = "pulling"
    /\ LET invalid == sessions[a].profile.validate /\ ~adapterValidate(heap, incoming)
           r == IF rejected
                THEN [m |-> [Machine EXCEPT !.thrown = TRUE], h |-> heap]
                ELSE IF Truthy(incoming) /\ ~invalid
                THEN syncCommit(Machine, heap, a, incoming)
                ELSE [m |-> Machine, h |-> heap]
           subscribed == ~r.m.thrown /\ sessions[a].profile.subscribe
           r2 == IF subscribed
                 THEN [r EXCEPT !.m = Emit(@, Ev("subscribe", a, r.m.state, r.m.state, ""))]
                 ELSE r
       IN /\ Finish(r2, Call("syncPulled", <<>>, incoming, a, NoResult))
          /\ sessions' = [sessions EXCEPT ![a].phase =
                             IF r.m.thrown THEN "failed" ELSE "active"]
    /\ UNCHANGED <<syncAdapters, hydration, dispatching>>

\* store.syncSettings(adapter) after await adapter.pull(): the pull rejected,
\* or gave incoming (null or a tree).
SyncPulled(a, rejected, incoming) ==
    /\ ops < MaxOps
    /\ sessions[a].phase = "pulling"
    /\ LET invalid == sessions[a].profile.validate /\ ~adapterValidate(heap, incoming)
           r == IF rejected \/ (Truthy(incoming) /\ invalid)
                THEN [m |-> [Machine EXCEPT !.thrown = TRUE], h |-> heap]
                ELSE IF Truthy(incoming)
                THEN syncCommit(Machine, heap, a, incoming)
                ELSE [m |-> Machine, h |-> heap]
           subscribed == ~r.m.thrown /\ sessions[a].profile.subscribe
           r2 == IF subscribed
                 THEN [r EXCEPT !.m = Emit(@, Ev("subscribe", a, r.m.state, r.m.state, ""))]
                 ELSE r
       IN /\ Finish(r2, Call("syncPulled", <<>>, incoming, a, NoResult))
          /\ sessions' = [sessions EXCEPT ![a].phase =
                             IF r.m.thrown THEN "failed" ELSE "active"]
    /\ UNCHANGED <<syncAdapters, hydration, dispatching>>

\* A faulty variant of Inbound: if (stopped) return; is missing.
InboundAfterStop(a, incoming) ==
    /\ ops < MaxOps
    /\ sessions[a].profile.subscribe
    /\ sessions[a].phase \in {"active", "stopped"}
    /\ LET invalid == sessions[a].profile.validate /\ ~adapterValidate(heap, incoming)
           r == IF invalid THEN [m |-> Machine, h |-> heap]
                ELSE syncCommit(Machine, heap, a, incoming)
       IN Finish(r, Call("inbound", <<>>, incoming, a, NoResult))
    /\ UNCHANGED <<syncAdapters, sessions, hydration, dispatching>>

\* The listener syncSettings gave to adapter.subscribe, called by the remote
\* feed with incoming.
Inbound(a, incoming) ==
    /\ ops < MaxOps
    /\ sessions[a].profile.subscribe
    /\ sessions[a].phase \in {"active", "stopped"}
    /\ LET stopped == sessions[a].phase = "stopped"
           invalid == sessions[a].profile.validate /\ ~adapterValidate(heap, incoming)
           r == IF stopped \/ invalid THEN [m |-> Machine, h |-> heap]
                ELSE syncCommit(Machine, heap, a, incoming)
       IN Finish(r, Call("inbound", <<>>, incoming, a, NoResult))
    /\ UNCHANGED <<syncAdapters, sessions, hydration, dispatching>>

\* The stop function syncSettings returned.
Stop(a) ==
    /\ ops < MaxOps
    /\ sessions[a].phase \in {"active", "stopped"}
    /\ sessions' = [sessions EXCEPT ![a].phase = "stopped"]
    /\ syncAdapters' = SetDelete(syncAdapters, a)
    /\ Quiet(Call("stop", <<>>, Undef, a, NoResult),
             IF sessions[a].profile.subscribe
             THEN <<Ev("unsubscribe", a, state, state, "")>> ELSE <<>>)
    /\ UNCHANGED <<listeners, pending, hydration, dispatching>>

\* The catch of syncPush for one rejected push: adapter.onError?.(error).
PushRejected(a) ==
    /\ ops < MaxOps
    /\ pending[a] > 0
    /\ pending' = [pending EXCEPT ![a] = @ - 1]
    /\ counts' = IF sessions[a].profile.onError
                 THEN [counts EXCEPT ![a].err = @ + 1] ELSE counts
    /\ log' = IF sessions[a].profile.onError
              THEN <<Ev("onError", a, state, state, "")>> ELSE <<>>
    /\ call' = Call("pushRejected", <<>>, Undef, a, NoResult)
    /\ ops' = ops + 1
    /\ UNCHANGED <<heap, state, initialState, listeners, syncAdapters, persistence,
                   memory, sessions, hydration, dispatching, snapshots, ctor, focus,
                   options>>

\* The registered actions: "apply" sets payload.value at payload.path through
\* its context; "fail" resets through its context and then throws.
ActionNames == {"apply", "fail"}

\* store.dispatch(type, payload) up to its await: the handler runs.
\* A faulty variant of Dispatch: the failure of a handler is swallowed and
\* the call goes on to onAction.
DispatchSwallowsFailure(type, path, value) ==
    /\ ops < MaxOps
    /\ ~dispatching.active
    /\ LET r == CASE type = "apply" -> storeSet(Machine, heap, path, value)
                  [] type = "fail" -> storeReset(Machine, heap)
                  [] OTHER -> [m |-> [Machine EXCEPT !.thrown = TRUE], h |-> heap]
       IN /\ Finish(r, Call("dispatch", path, value, type, NoResult))
          /\ dispatching' = IF type \notin {"apply", "fail"} THEN NoDispatch
                            ELSE [active |-> TRUE, type |-> type, path |-> path,
                                  value |-> value]
    /\ UNCHANGED <<syncAdapters, sessions, hydration>>

\* A faulty variant of Dispatch: a type with no registered action is not
\* rejected; the call goes on to onAction.
DispatchUnknownGoesOn(type, path, value) ==
    /\ ops < MaxOps
    /\ ~dispatching.active
    /\ LET r == CASE type = "apply" -> storeSet(Machine, heap, path, value)
                  [] type = "fail" ->
                        LET r1 == storeReset(Machine, heap)
                        IN [r1 EXCEPT !.m.thrown = TRUE]
                  [] OTHER -> [m |-> Machine, h |-> heap]
       IN /\ Finish(r, Call("dispatch", path, value, type, NoResult))
          /\ dispatching' = IF r.m.thrown THEN NoDispatch
                            ELSE [active |-> TRUE, type |-> type, path |-> path,
                                  value |-> value]
    /\ UNCHANGED <<syncAdapters, sessions, hydration>>

Dispatch(type, path, value) ==
    /\ ops < MaxOps
    /\ ~dispatching.active
    /\ LET r == CASE type = "apply" -> storeSet(Machine, heap, path, value)
                  [] type = "fail" ->
                        LET r1 == storeReset(Machine, heap)
                        IN [r1 EXCEPT !.m.thrown = TRUE]
                  [] OTHER -> [m |-> [Machine EXCEPT !.thrown = TRUE], h |-> heap]
       IN /\ Finish(r, Call("dispatch", path, value, type, NoResult))
          /\ dispatching' = IF r.m.thrown THEN NoDispatch
                            ELSE [active |-> TRUE, type |-> type, path |-> path,
                                  value |-> value]
    /\ UNCHANGED <<syncAdapters, sessions, hydration>>

\* store.dispatch after await action(payload, context): onAction?.({type, payload, state}).
DispatchResume ==
    /\ ops < MaxOps
    /\ dispatching.active
    /\ dispatching' = NoDispatch
    /\ Quiet(Call("dispatched", dispatching.path, dispatching.value, dispatching.type,
                  NoResult),
             <<[Ev("onAction", dispatching.type, state, state, "") EXCEPT
                   !.path = dispatching.path, !.value = dispatching.value]>>)
    /\ UNCHANGED <<listeners, syncAdapters, sessions, pending, hydration>>

Next ==
    \/ \E path \in Paths :
          \E value \in InputValues \cup {getByPath(heap, state, path)} : Set(path, value)
    \/ \E nextState \in {TreeB, state} : SetState(nextState)
    \/ SetStateUpdater
    \/ Reset
    \/ \E candidate \in {TreeC, state} :
          \E option \in {"none", "merge", "skip-conflicts"} :
             \E validate \in BOOLEAN : ImportSettings(candidate, option, validate)
    \/ \E candidate \in {Prim(1), Null, Ref(3)} :
          \E validate \in BOOLEAN : ImportSettings(candidate, "none", validate)
    \/ \E l \in ListenerIds : Subscribe(l) \/ Unsubscribe(l)
    \/ HydrateCall
    \/ HydrateResume
    \/ \E a \in AdapterIds :
          \/ \E profile \in AdapterProfiles : SyncSettings(a, profile)
          \/ \E incoming \in InputTrees \cup {Null} : SyncPulled(a, FALSE, incoming)
          \/ SyncPulled(a, TRUE, Null)
          \/ \E incoming \in InputTrees : Inbound(a, incoming)
          \/ Stop(a)
          \/ PushRejected(a)
    \/ \E type \in ActionNames \cup {"missing"} :
          \E path \in {<<"x">>} : \E value \in {Prim(2)} : Dispatch(type, path, value)
    \/ DispatchResume

Spec == Init /\ [][Next]_vars

----------------------------------------------------------------------------
(* The import laws: a store with no persistence, listener or adapter, written
   to by set and importSettings with a wider choice of trees and values *)

\* The number of calls of one run of ImportSpec.
MaxCalls == 2

\* Trees given to the constructor and to importSettings.
LawTrees == { TreeA, TreeB, TreeC, TreeD, TreeE, TreeF }

\* Values given to set.
LawValues == { Undef, Null, Prim(2), Ref(4) }

ImportInit ==
    /\ heap = InitHeap
    /\ initialState \in {TreeA, TreeC, TreeF}
    /\ persistence = Persistence(FALSE, FALSE, "ok")
    /\ memory = Null
    /\ state = initialState
    /\ listeners = <<>>
    /\ syncAdapters = <<>>
    /\ sessions = [a \in AdapterIds |-> [phase |-> "none", profile |-> NoProfile]]
    /\ pending = [a \in AdapterIds |-> 0]
    /\ hydration = Idle
    /\ dispatching = NoDispatch
    /\ log = <<>>
    /\ call = [op |-> "create", path |-> <<>>, value |-> Undef, id |-> "",
               pv |-> Undef, before |-> initialState, thrown |-> FALSE,
               lsn |-> <<>>, ads |-> <<>>, res |-> NoResult, validate |-> FALSE]
    /\ counts = [a \in AdapterIds |-> [push |-> 0, err |-> 0, due |-> 0]]
    /\ snapshots = {<<initialState, Flatten(heap, initialState)>>}
    /\ ctor = <<initialState, Flatten(heap, initialState)>>
    /\ focus = NoFocus
    /\ options = PlainOptions
    /\ ops = 0

ImportNext ==
    \/ /\ ops < MaxCalls
       /\ \E path \in Paths : \E value \in LawValues : Set(path, value)
    \/ /\ ops < MaxCalls
       /\ \E candidate \in LawTrees \cup {state} :
             \E option \in {"none", "replace", "merge", "skip-conflicts"} :
                ImportSettings(candidate, option, FALSE)
    \/ /\ ops < MaxCalls
       /\ ExportToFresh

ImportSpec == ImportInit /\ [][ImportNext]_vars

-----------------------------------------------------------------------------
(* The subscriber registry under listeners that call subscribe and an
   unsubscribe function from inside their callback: a store with no
   persistence and no adapter, written to by set. *)

\* Every listener of the model, plain or calling back into the store.
AllListenerIds == ListenerIds \cup ReentrantListenerIds

NotifyNext ==
    \/ \E l \in AllListenerIds : Subscribe(l)
    \/ \E l \in AllListenerIds : Unsubscribe(l)
    \/ \E path \in Paths : \E value \in InputValues : Set(path, value)

NotifySpec == ImportInit /\ [][NotifyNext]_vars

-----------------------------------------------------------------------------
(* Pushes in flight: a store whose persistence adapter writes to a storage
   that fills up (its save throws once something is stored, as
   localStorage.setItem does over quota), with sync adapters that have no
   pull. *)

\* Adapters without pull: one whose push rejects later, one whose push throws.
PushProfiles == {p \in AdapterProfiles : ~p.pull}

PushInit ==
    /\ heap = InitHeap
    /\ initialState = TreeA
    /\ persistence = Persistence(TRUE, TRUE, "full")
    /\ memory = Null
    /\ state = initialState
    /\ listeners = <<>>
    /\ syncAdapters = <<>>
    /\ sessions = [a \in AdapterIds |-> [phase |-> "none", profile |-> NoProfile]]
    /\ pending = [a \in AdapterIds |-> 0]
    /\ hydration = Idle
    /\ dispatching = NoDispatch
    /\ log = <<>>
    /\ call = [op |-> "create", path |-> <<>>, value |-> Undef, id |-> "",
               pv |-> Undef, before |-> initialState, thrown |-> FALSE,
               lsn |-> <<>>, ads |-> <<>>, res |-> NoResult, validate |-> FALSE]
    /\ counts = [a \in AdapterIds |-> [push |-> 0, err |-> 0, due |-> 0]]
    /\ snapshots = {<<initialState, Flatten(heap, initialState)>>}
    /\ ctor = <<initialState, Flatten(heap, initialState)>>
    /\ focus = NoFocus
    /\ options = PlainOptions
    /\ ops = 0

PushNext ==
    \/ \E path \in Paths : \E value \in InputValues : Set(path, value)
    \/ Reset
    \/ \E a \in AdapterIds : \E profile \in PushProfiles : SyncSettings(a, profile)
    \/ \E a \in AdapterIds : PushRejected(a)

PushSpec == PushInit /\ [][PushNext]_vars

-----------------------------------------------------------------------------
(* Roving focus: getNextIndex called over and over on its own result, for a
   list of `total` items (none and a negative count included) and an index
   that starts anywhere, out of range included. *)

\* The longest list, and the number of moves of one run.
MaxTotal == 4
MaxMoves == 3

KeyboardDirection == {"next", "prev"}

KeyboardInit ==
    /\ heap = InitHeap
    /\ initialState = TreeA
    /\ persistence = Persistence(FALSE, FALSE, "ok")
    /\ memory = Null
    /\ state = initialState
    /\ listeners = <<>>
    /\ syncAdapters = <<>>
    /\ sessions = [a \in AdapterIds |-> [phase |-> "none", profile |-> NoProfile]]
    /\ pending = [a \in AdapterIds |-> 0]
    /\ hydration = Idle
    /\ dispatching = NoDispatch
    /\ log = <<>>
    /\ call = [op |-> "create", path |-> <<>>, value |-> Undef, id |-> "",
               pv |-> Undef, before |-> initialState, thrown |-> FALSE,
               lsn |-> <<>>, ads |-> <<>>, res |-> NoResult, validate |-> FALSE]
    /\ counts = [a \in AdapterIds |-> [push |-> 0, err |-> 0, due |-> 0]]
    /\ snapshots = {<<initialState, Flatten(heap, initialState)>>}
    /\ ctor = <<initialState, Flatten(heap, initialState)>>
    /\ options = PlainOptions
    /\ ops = 0
    /\ \E total \in -1..MaxTotal : \E currentIndex \in -2..(MaxTotal + 1) :
          focus = [NoFocus EXCEPT !.total = total, !.currentIndex = currentIndex,
                                  !.from = currentIndex]

\* One call: currentIndex becomes getNextIndex(currentIndex, total, direction).
Move(direction) ==
    /\ focus.moves < MaxMoves
    /\ focus' = [focus EXCEPT
                    !.currentIndex = getNextIndex(focus.currentIndex, focus.total, direction),
                    !.from = focus.currentIndex,
                    !.direction = direction,
                    !.moves = @ + 1]
    /\ UNCHANGED <<heap, state, initialState, listeners, syncAdapters, persistence,
                   memory, sessions, pending, hydration, dispatching, log, call,
                   counts, snapshots, ctor, options, ops>>

KeyboardNext == \E direction \in KeyboardDirection : Move(direction)

KeyboardSpec == KeyboardInit /\ [][KeyboardNext]_vars

-----------------------------------------------------------------------------
(* Re-entrant commits: a store with no persistence and no adapter whose
   callbacks call back into the store while a commit is running: a listener
   that calls reset(), and an onStateChange callback that calls setState. *)

\* The listener "LR", whose callback calls store.reset(), next to a plain one.
CommittingListenerIds == {"L1", "LR"}

\* Callbacks that only record, and callbacks whose onStateChange re-enters.
OptionsChoices == {PlainOptions, [onStateChange |-> "reenters"]}

ReentrantInit ==
    /\ heap = InitHeap
    /\ initialState = TreeA
    /\ persistence = Persistence(FALSE, FALSE, "ok")
    /\ memory = Null
    /\ state = initialState
    /\ listeners = <<>>
    /\ syncAdapters = <<>>
    /\ sessions = [a \in AdapterIds |-> [phase |-> "none", profile |-> NoProfile]]
    /\ pending = [a \in AdapterIds |-> 0]
    /\ hydration = Idle
    /\ dispatching = NoDispatch
    /\ log = <<>>
    /\ call = [op |-> "create", path |-> <<>>, value |-> Undef, id |-> "",
               pv |-> Undef, before |-> initialState, thrown |-> FALSE,
               lsn |-> <<>>, ads |-> <<>>, res |-> NoResult, validate |-> FALSE]
    /\ counts = [a \in AdapterIds |-> [push |-> 0, err |-> 0, due |-> 0]]
    /\ snapshots = {<<initialState, Flatten(heap, initialState)>>}
    /\ ctor = <<initialState, Flatten(heap, initialState)>>
    /\ focus = NoFocus
    /\ options \in OptionsChoices
    /\ ops = 0

ReentrantNext ==
    \/ \E l \in CommittingListenerIds : Subscribe(l)
    \/ \E l \in CommittingListenerIds : Unsubscribe(l)
    \/ \E path \in Paths : \E value \in InputValues : Set(path, value)
    \/ \E nextState \in {TreeB, state} : SetState(nextState)
    \/ Reset

ReentrantSpec == ReentrantInit /\ [][ReentrantNext]_vars

----------------------------------------------------------------------------
(* Properties *)

\* The positions of the events of one kind in the log of the latest step.
Idx(e) == {i \in 1..Len(log) : log[i].e = e}

\* The latest step changed nothing and called nothing: same snapshot, no
\* save, push, onStateChange, onChange or listener call, and it did not throw.
NoEffect == state = call.before /\ log = <<>> /\ ~call.thrown

\* The calls the application makes that commit with save and push.
LocalOps == {"set", "setState", "reset", "import"}

\* Every adapter registered when the step began was pushed to.
AllPushed == \A n \in 1..Len(call.ads) : \E j \in Idx("push") : log[j].id = call.ads[n]

\* Every listener registered when the step began was called.
AllNotified == \A n \in 1..Len(call.lsn) : \E j \in Idx("notify") : log[j].id = call.lsn[n]

C2_ResetRestoresInitial ==
    call.op = "reset" => (state = initialState /\ Flatten(heap, state) = ctor[2])

\* A reset of a store that started from the loadSync tree and was then
\* written to.
C2_Witness ==
    /\ call.op = "reset"
    /\ persistence.loadSync
    /\ ~DeepEqual(heap, call.before, initialState)
    /\ Cardinality(snapshots) >= 3

\* C3: getInitialState() is the constructor's tree, with the contents it had
\* at construction, in every reachable state.
C3_InitialStateStable ==
    initialState = ctor[1] /\ Flatten(heap, initialState) = ctor[2]

\* A nested write committed while the initial tree was the current state.
C3_Witness ==
    /\ call.op = "set" /\ call.before = initialState /\ state # initialState
    /\ Len(parsePath(call.path)) = 2

\* C4, as stated: after set(p, v), get(p) is v, for every path p.
C4_GetAfterSetAnyPath ==
    call.op = "set" => getByPath(heap, state, call.path) = call.value

\* C4, amended: for every path p with at least one non-blank segment, after
\* store.set(p, v), store.get(p) is v; and reading p from
\* setByPath(state, p, v) gives v for every current state that is a mapping.
C4_GetAfterSet ==
    /\ (call.op = "set" /\ parsePath(call.path) # <<>>) =>
          getByPath(heap, state, call.path) = call.value
    /\ isObject(heap, state) =>
          \A p \in Paths : \A v \in InputValues :
             parsePath(p) # <<>> =>
                LET w == setByPath(heap, state, p, v)
                IN getByPath(w.h, w.r, p) = v

\* A committed write of a mapping at a.b where a held a primitive.
C4_Witness ==
    /\ call.op = "set" /\ Len(parsePath(call.path)) = 2
    /\ getByPath(heap, call.before, <<"a">>).t = "prim"
    /\ call.value = Ref(4)
    /\ state # call.before

\* C5: a tree that was once the current state keeps the contents it had then.
C5_SnapshotsImmutable ==
    \A s \in snapshots : Flatten(heap, s[1]) = s[2]

\* A nested write committed over a tree whose branch a is a mapping, after
\* at least one earlier commit.
C5_Witness ==
    /\ call.op = "set" /\ Len(parsePath(call.path)) = 2 /\ state # call.before
    /\ isObject(heap, getByPath(heap, call.before, <<"a">>))
    /\ Cardinality(snapshots) >= 3

\* C6: in every step, each listener registered when it began is called once
\* for each replacement of the current snapshot, and not otherwise.
C6_NotifiedOncePerCommit ==
    \A n \in 1..Len(call.lsn) :
       Cardinality({i \in Idx("notify") : log[i].id = call.lsn[n]})
          = Cardinality(Idx("swap"))

\* C7: a listener is called only inside a committing call, and for a commit
\* of set, setState, reset or importSettings only after that commit's save
\* (when there is a persistence adapter) and its push to every registered
\* adapter have been called.
C7_NotifyAfterSaveAndPush ==
    \A i \in Idx("notify") :
       /\ \E k \in Idx("swap") : k < i
       /\ LET k == CHOOSE k \in Idx("swap") :
                      k < i /\ \A k2 \in Idx("swap") : k2 < i => k2 <= k
          IN log[k].src \in LocalOps =>
                /\ persistence.present =>
                      \E j \in Idx("save") : k < j /\ j < i /\ log[j].s = log[k].s
                /\ \A n \in 1..Len(call.ads) :
                      \E j \in Idx("push") :
                         k < j /\ j < i /\ log[j].id = call.ads[n] /\ log[j].s = log[k].s

\* A commit with a persistence adapter, a sync adapter and a listener.
C7_Witness ==
    /\ call.op \in LocalOps
    /\ Idx("notify") # {} /\ Idx("save") # {} /\ Idx("push") # {}

\* C8: when a push of the latest commit failed, the mutating call did not
\* throw, every registered adapter was pushed to, the state changed,
\* onStateChange and every listener were called, and the failure is on its
\* way to the adapter's catch.
C8_PushFailureIsolated ==
    \A i \in Idx("push") :
       (call.op \in LocalOps /\ sessions[log[i].id].profile.push # "ok") =>
          /\ ~call.thrown
          /\ AllPushed
          /\ state = log[i].s
          /\ Idx("stateChange") # {}
          /\ AllNotified
          /\ pending[log[i].id] > 0

\* C9: for an adapter whose push always rejects and that has onError: a set
\* that changes the value at its path commits it; every push attempt gave
\* one error (delivered to onError or still to be); and every commit the
\* adapter was registered for was one push attempt.
C9_OneErrorPerCommit ==
    \A a \in AdapterIds :
       (sessions[a].phase # "none" /\ sessions[a].profile.push = "reject"
          /\ sessions[a].profile.onError) =>
          /\ (call.op = "set" /\ Has(call.ads, a) /\ parsePath(call.path) # <<>>
                /\ ~ObjectIs(call.value, call.pv)) =>
                (state # call.before /\ getByPath(heap, state, call.path) = call.value)
          /\ counts[a].err + pending[a] = counts[a].push
          /\ counts[a].push = counts[a].due

\* C10: when the save of a commit failed, the mutating call did not throw,
\* every registered adapter was pushed to, and onStateChange and every
\* listener were called.
C10_SaveFailureNotSurfaced ==
    (call.op \in LocalOps /\ Idx("save") # {} /\ persistence.save # "ok") =>
       /\ ~call.thrown
       /\ AllPushed
       /\ Idx("stateChange") # {}
       /\ AllNotified

----------------------------------------------------------------------------
(* Properties of the import laws *)

\* The contents of the tree before the latest call, of the call's argument
\* and of the current state.
BeforeNodes == Flatten(heap, call.before)
IncomingNodes == Flatten(heap, call.value)
StateNodes == Flatten(heap, state)

PathsOf(nodes) == {n[1] : n \in nodes}

\* The kind of the value at path p of a tree: "undef" when there is none.
KindAt(nodes, p) ==
    IF \E n \in nodes : n[1] = p THEN (CHOOSE n \in nodes : n[1] = p)[2] ELSE "undef"

Defined(nodes, p) == KindAt(nodes, p) # "undef"

IsPrefix(p, q) == Len(p) <= Len(q) /\ SubSeq(q, 1, Len(p)) = p

\* The contents of the value at path p of a tree.
Sub(nodes, p) ==
    {<<SubSeq(n[1], Len(p) + 1, Len(n[1])), n[2], n[3]>> :
        n \in {m \in nodes : IsPrefix(p, m[1])}}

\* Path p lies inside mappings of both trees: every proper prefix of it is
\* a mapping on both sides.
Reached(left, right, p) ==
    \A k \in 0..(Len(p) - 1) :
       KindAt(left, SubSeq(p, 1, k)) = "map" /\ KindAt(right, SubSeq(p, 1, k)) = "map"

\* A leaf of the walk over both trees: not a mapping on both sides.
Leaf(left, right, p) ==
    Reached(left, right, p) /\ ~(KindAt(left, p) = "map" /\ KindAt(right, p) = "map")

InConflicts(p) == \E k \in 1..Len(call.res.conflicts) : call.res.conflicts[k] = p

\* The latest call was an importSettings with this strategy that returned.
Imported(strategy) ==
    call.op = "import" /\ ~call.thrown /\ call.res.strategy = strategy

\* C11: after importSettings with skip-conflicts, at every leaf path of the
\* incoming tree: where current had no value the state has incoming's and no
\* conflict is reported; where both held the same value it is kept and not
\* reported; where they disagree current's is kept and the path is reported;
\* and no value current had at a leaf path has changed.
C11_SkipConflictsLaw ==
    Imported("skip-conflicts") =>
       /\ \A p \in PathsOf(IncomingNodes) :
             Leaf(BeforeNodes, IncomingNodes, p) =>
                IF ~Defined(BeforeNodes, p)
                THEN Sub(StateNodes, p) = Sub(IncomingNodes, p) /\ ~InConflicts(p)
                ELSE /\ Sub(StateNodes, p) = Sub(BeforeNodes, p)
                     /\ InConflicts(p) <=> Sub(BeforeNodes, p) # Sub(IncomingNodes, p)
       /\ \A p \in PathsOf(BeforeNodes) :
             (Defined(BeforeNodes, p) /\ KindAt(BeforeNodes, p) # "map") =>
                Sub(StateNodes, p) = Sub(BeforeNodes, p)

\* C12: after importSettings with merge, every value at a path that only
\* current has (inside mappings of both trees) is current's, and at every
\* path of incoming where the two are not both mappings the state has
\* incoming's value whole: an array is not merged with the array it replaces.
C12_MergeLaw ==
    Imported("merge") =>
       /\ \A p \in PathsOf(BeforeNodes) :
             (Reached(BeforeNodes, IncomingNodes, p) /\ p \notin PathsOf(IncomingNodes)) =>
                Sub(StateNodes, p) = Sub(BeforeNodes, p)
       /\ \A p \in PathsOf(IncomingNodes) :
             Leaf(BeforeNodes, IncomingNodes, p) =>
                Sub(StateNodes, p) = Sub(IncomingNodes, p)

\* A merge where current has a key of its own, a null that a primitive
\* replaces, and a longer array than the one that replaces it.
C12_Witness ==
    /\ Imported("merge")
    /\ \E p \in PathsOf(BeforeNodes) : Len(p) = 1 /\ p \notin PathsOf(IncomingNodes)
    /\ \E p \in PathsOf(IncomingNodes) :
          /\ KindAt(BeforeNodes, p) = "arr" /\ KindAt(IncomingNodes, p) = "arr"
          /\ Cardinality(Sub(BeforeNodes, p)) > Cardinality(Sub(IncomingNodes, p))
    /\ \E p \in PathsOf(IncomingNodes) :
          KindAt(BeforeNodes, p) = "null" /\ KindAt(IncomingNodes, p) = "prim"

\* C13: merging a tree with itself gives a tree with the same contents, and
\* merging the incoming tree again into the result of a merge gives a tree
\* with the contents of that result.
C13_MergeIdempotent ==
    /\ isObject(heap, state) =>
          LET m == deepMerge(heap, state, state) IN Flatten(m.h, m.r) = StateNodes
    /\ Imported("merge") =>
          LET m == deepMerge(heap, state, call.value) IN Flatten(m.h, m.r) = StateNodes

\* A merge of two trees that differ, into a third, with an array and a
\* nested mapping in the result.
C13_Witness ==
    /\ Imported("merge")
    /\ StateNodes # BeforeNodes /\ StateNodes # IncomingNodes
    /\ \E p \in PathsOf(StateNodes) : Len(p) = 2 /\ KindAt(StateNodes, SubSeq(p, 1, 1)) = "map"

\* C14: an importSettings of data with the contents of the current state,
\* under any strategy, commits nothing, calls nothing and returns
\* applied = false.
C14_IdenticalImportIsNoop ==
    (call.op = "import" /\ ~call.thrown /\ IncomingNodes = BeforeNodes) =>
       (NoEffect /\ ~call.res.applied)

\* C15, as stated: after exportSettings() and importSettings(blob, {strategy:
\* "replace"}) on a new store with the same initial state, the new store's
\* state has the contents of the exported state, whatever that state was.
C15_RoundTripAnyState ==
    call.op = "roundTrip" => StateNodes = BeforeNodes

\* C15, amended: the same, for every exported state that holds undefined at
\* none of its paths.
C15_RoundTrip ==
    (call.op = "roundTrip" /\ \A n \in BeforeNodes : n[2] # "undef") =>
       (~call.thrown /\ call.res.applied /\ StateNodes = BeforeNodes)

\* A round trip of a state that differs from the initial state and holds an
\* array and a mapping below its root.
C15_Witness ==
    /\ call.op = "roundTrip"
    /\ BeforeNodes # ctor[2]
    /\ \A n \in BeforeNodes : n[2] # "undef"
    /\ \E n \in BeforeNodes : n[2] = "arr"
    /\ \E n \in BeforeNodes : n[2] = "map" /\ Len(n[1]) = 1

----------------------------------------------------------------------------
(* Properties of importSettings, hydrate, construction and sync setup *)

\* C16: for an importSettings that returned: applied is true exactly when
\* the call replaced the current state, and then every listener was called
\* (and none otherwise); strategy is the option given, replace when none
\* was, and a replace leaves the candidate as the state; conflicts is empty
\* for replace and merge.
C16_ImportResultFaithful ==
    (call.op = "import" /\ ~call.thrown) =>
       /\ call.res.applied <=> state # call.before
       /\ call.res.applied <=> Idx("swap") # {}
       /\ IF call.res.applied THEN AllNotified ELSE log = <<>>
       /\ call.res.strategy = (IF call.id = "none" THEN "replace" ELSE call.id)
       /\ call.res.strategy = "replace" => state = call.value
       /\ call.res.strategy \in {"replace", "merge"} => call.res.conflicts = <<>>

\* An import with no strategy given that committed, with a listener.
C16_Witness ==
    /\ call.op = "import" /\ ~call.thrown
    /\ call.id = "none" /\ call.res.applied
    /\ Len(call.lsn) > 0

\* C17: an importSettings of a candidate that is not a mapping throws the
\* shape error, with or without a validate option; one of a mapping that the
\* validate option rejects throws the validation error; both leave the state
\* as it was and call nothing.
C17_ImportRejects ==
    call.op = "import" =>
       /\ ~isObject(heap, call.value) =>
             (call.thrown /\ call.res.err = "shape" /\ state = call.before /\ log = <<>>)
       /\ (isObject(heap, call.value) /\ call.validate
             /\ ~importValidate(heap, call.value)) =>
             (call.thrown /\ call.res.err = "validation" /\ state = call.before
                /\ log = <<>>)

\* An import of an array with a validate option, into a store with a
\* persistence adapter, a listener and a sync adapter.
C17_Witness ==
    /\ call.op = "import" /\ isArray(heap, call.value) /\ call.validate
    /\ persistence.present /\ Len(call.lsn) > 0 /\ Len(call.ads) > 0

\* Each listener registered when the step began was called once.
AllNotifiedOnce ==
    \A n \in 1..Len(call.lsn) :
       Cardinality({i \in Idx("notify") : log[i].id = call.lsn[n]}) = 1

\* What a hydrate that commits does: the loaded tree is the state, one
\* onStateChange with source hydrate, every listener called once, no save
\* and no push.
HydrateCommitted ==
    /\ ~call.thrown
    /\ state = call.value
    /\ Cardinality(Idx("stateChange")) = 1
    /\ \A i \in Idx("stateChange") :
          log[i].src = "hydrate" /\ log[i].s = call.value /\ log[i].p = call.before
    /\ AllNotifiedOnce
    /\ Idx("save") = {} /\ Idx("push") = {}

\* hydrate() without a persistence adapter returns at once.
HydrateWithoutPersistence ==
    (call.op = "hydrate" /\ ~persistence.present) => (NoEffect /\ ~hydration.active)

\* C18, as stated: a hydrate whose load gave a tree commits it; one whose
\* load gave nothing, or without a persistence adapter, changes nothing.
C18_HydrateCommitsLoaded ==
    /\ (call.op = "hydrated" /\ Truthy(call.value)) => HydrateCommitted
    /\ (call.op = "hydrated" /\ ~Truthy(call.value)) => NoEffect
    /\ HydrateWithoutPersistence

\* C18, amended: a hydrate whose load gave a tree other than the object that
\* is the current state commits it; one whose load gave the current state
\* object itself, or nothing, or without a persistence adapter, changes
\* nothing and calls nobody.
C18_Hydrate ==
    /\ (call.op = "hydrated" /\ Truthy(call.value) /\ call.value # call.before) =>
          HydrateCommitted
    /\ (call.op = "hydrated" /\ (~Truthy(call.value) \/ call.value = call.before)) =>
          NoEffect
    /\ HydrateWithoutPersistence

\* A hydrate that committed the loaded tree while a sync adapter was
\* registered.
C18_Witness ==
    /\ call.op = "hydrated" /\ Truthy(call.value) /\ call.value # call.before
    /\ Len(call.ads) > 0

\* C19: as the constructor returns, the state is the tree loadSync gave when
\* it gave one, and nothing has been saved, pushed or notified.
C19_LoadSyncAtConstruction ==
    call.op = "create" =>
       /\ (persistence.loadSync /\ Truthy(memory)) => state = memory
       /\ log = <<>>
       /\ \A a \in AdapterIds : counts[a].push = 0 /\ pending[a] = 0

\* A store constructed over a loadSync that gave a tree other than the
\* constructor's.
C19_Witness ==
    /\ call.op = "create"
    /\ persistence.loadSync /\ Truthy(memory) /\ memory # initialState

\* C20: a commit of set, setState, reset or importSettings made while an
\* adapter's pull is in flight is pushed to that adapter.
C20_PushedWhilePulling ==
    \A a \in AdapterIds :
       (sessions[a].phase = "pulling" /\ Has(call.ads, a) /\ call.op \in LocalOps
          /\ state # call.before) =>
          \E j \in Idx("push") : log[j].id = a /\ log[j].s = state

----------------------------------------------------------------------------
(* Properties of sync adapters, listeners and events *)

\* C21: the commit of a pulled tree is not pushed to the adapter it was
\* pulled from, is saved when there is a persistence adapter, and is pushed
\* to every other adapter registered at that moment.
C21_PulledCommitPushedToOthers ==
    (call.op = "syncPulled" /\ Idx("swap") # {}) =>
       /\ \A j \in Idx("push") : log[j].id # call.id
       /\ persistence.present => Idx("save") # {}
       /\ \A n \in 1..Len(call.ads) :
             call.ads[n] # call.id => \E j \in Idx("push") : log[j].id = call.ads[n]

\* C22: when the adapter has validate and the pulled tree fails it (x is not
\* a primitive), syncSettings throws, the state is as before, nothing is
\* called and the setup never subscribes to the remote feed.
C22_InvalidPullFails ==
    (call.op = "syncPulled" /\ sessions[call.id].profile.validate /\ Truthy(call.value)
       /\ KindAt(IncomingNodes, <<"x">>) # "prim") =>
       /\ call.thrown
       /\ state = call.before
       /\ log = <<>>
       /\ sessions[call.id].phase = "failed"

\* A pull that failed validation, in a store with a listener.
C22_Witness ==
    /\ call.op = "syncPulled" /\ sessions[call.id].profile.validate
    /\ Truthy(call.value) /\ KindAt(IncomingNodes, <<"x">>) # "prim"
    /\ sessions[call.id].profile.subscribe
    /\ Len(call.lsn) > 0

\* C23: an inbound tree on an active adapter that fails the adapter's
\* validate changes nothing and calls nothing; any other becomes the state,
\* merged into the current state when the adapter has merge and as it is
\* when it has not, with source sync and no push to any adapter.
C23_InboundHandled ==
    (call.op = "inbound" /\ sessions[call.id].phase = "active") =>
       IF sessions[call.id].profile.validate /\ KindAt(IncomingNodes, <<"x">>) # "prim"
       THEN NoEffect
       ELSE /\ IF sessions[call.id].profile.merge
               THEN LET m == deepMerge(heap, call.before, call.value)
                    IN StateNodes = Flatten(m.h, m.r)
               ELSE state = call.value
            /\ \A k \in Idx("swap") \cup Idx("stateChange") : log[k].src = "sync"
            /\ Idx("push") = {}

\* An inbound tree merged into a different current state by an adapter with
\* validate and merge.
C23_Witness ==
    /\ call.op = "inbound" /\ sessions[call.id].phase = "active"
    /\ sessions[call.id].profile.merge /\ sessions[call.id].profile.validate
    /\ Has(call.ads, call.id)
    /\ state # call.before /\ state # call.value

\* C24: an inbound tree from a stopped adapter changes nothing; a stopped
\* adapter is not in the active set and no commit is pushed to it; the stop
\* call invokes the adapter's unsubscribe when it has one, leaves the state,
\* and leaves every other adapter in the active set.
C24_StoppedAdapterIsOut ==
    /\ (call.op = "inbound" /\ sessions[call.id].phase = "stopped") => NoEffect
    /\ \A a \in AdapterIds :
          sessions[a].phase = "stopped" =>
             (~Has(syncAdapters, a) /\ \A j \in Idx("push") : log[j].id # a)
    /\ call.op = "stop" =>
          /\ sessions[call.id].profile.subscribe =>
                \E j \in Idx("unsubscribe") : log[j].id = call.id
          /\ state = call.before
          /\ \A n \in 1..Len(call.ads) :
                call.ads[n] # call.id => Has(syncAdapters, call.ads[n])

\* A tree other than the state delivered by the feed of a stopped adapter.
C24_Witness ==
    /\ call.op = "inbound" /\ sessions[call.id].phase = "stopped"
    /\ call.value # state
    /\ KindAt(IncomingNodes, <<"x">>) = "prim"

\* C25: a call of the stop function after the first changes nothing and
\* calls nothing: same state, same active set, no adapter callback.
C25_StopIdempotent ==
    (call.op = "stop" /\ ~Has(call.ads, call.id)) =>
       (log = <<>> /\ state = call.before /\ syncAdapters = call.ads)

\* The number of times the latest step called listener l.
Notified(l) == Cardinality({i \in Idx("notify") : log[i].id = l})

\* C26: a commit calls exactly the listeners registered when its notification
\* started, each once: a listener subscribed from inside a callback is not
\* called for that commit, and a listener unsubscribed from inside a callback
\* is still called for it.
C26_NotifiesListenersAtStart ==
    (call.op = "set" /\ Idx("swap") # {}) =>
       \A l \in AllListenerIds :
          Notified(l) = IF Has(call.lsn, l) THEN 1 ELSE 0

\* The source an onStateChange event carries for a commit made by a call.
SourceOf(c) ==
    CASE c.op = "set" -> "set"
      [] c.op = "setState" -> "setState"
      [] c.op = "reset" -> "reset"
      [] c.op \in {"import", "roundTrip"} -> "import"
      [] c.op = "hydrated" -> "hydrate"
      [] c.op \in {"syncPulled", "inbound"} -> "sync"
      [] c.op = "dispatch" /\ c.id = "apply" -> "set"
      [] c.op = "dispatch" /\ c.id = "fail" -> "reset"
      [] OTHER -> ""

\* The onStateChange events of the commit whose swap is entry k of the log:
\* those after it and before the next swap.
EventsOf(k) ==
    {j \in Idx("stateChange") : k < j /\ \A k2 \in Idx("swap") : k2 > k => j < k2}

\* C27: every commit produces exactly one onStateChange event; its source
\* names the operation, its state is the new snapshot and its previousState
\* the snapshot replaced; path, value and previousValue are present exactly
\* when the source is set, and are the path written, the value written and
\* the value resolved at the path before the write.
C27_OneEventPerCommit ==
    /\ \A j \in Idx("stateChange") : \E k \in Idx("swap") : j \in EventsOf(k)
    /\ \A k \in Idx("swap") :
          /\ Cardinality(EventsOf(k)) = 1
          /\ \A j \in EventsOf(k) :
                /\ log[j].src = SourceOf(call)
                /\ log[j].s = log[k].s
                /\ log[j].s = state
                /\ log[j].p = call.before
                /\ log[j].hasPath <=> (log[j].src = "set")
                /\ log[j].hasPath =>
                      /\ log[j].path = call.path
                      /\ log[j].value = call.value
                      /\ log[j].pv = call.pv

\* C28: setState commits the tree it is given, or the tree its updater
\* returned: that tree becomes the state by one swap; when it is the current
\* snapshot itself, the call is a no-op: no commit, no save, no push, no
\* event, no listener call.
C28_SetStateCommitsOrNoop ==
    call.op = "setState" =>
       IF ObjectIs(call.value, call.before) THEN NoEffect
       ELSE /\ state = call.value
            /\ Cardinality(Idx("swap")) = 1
            /\ \A k \in Idx("swap") :
                  log[k].s = call.value /\ log[k].p = call.before /\ log[k].src = "setState"

\* setState(current snapshot) on a store with a persistence adapter, a
\* listener and a sync adapter.
C28_Witness ==
    /\ call.op = "setState"
    /\ ObjectIs(call.value, call.before)
    /\ persistence.present
    /\ Len(call.lsn) > 0
    /\ Len(call.ads) > 0
    /\ NoEffect

\* The entries of a log that are events of kind e.
IdxOf(lg, e) == {i \in 1..Len(lg) : lg[i].e = e}

\* C29: a set that writes a new value at a path (one with a non-blank
\* segment) while an earlier push to a registered adapter is still unresolved
\* commits in that call and calls the adapter's push once more, after the
\* swap and with the snapshot of this commit; every push of a call carries
\* the snapshot of the commit it follows.
C29_SetDoesNotWaitForPush ==
    [][ /\ \A j \in IdxOf(log', "push") :
              \E k \in IdxOf(log', "swap") : k < j /\ log'[k].s = log'[j].s
        /\ \A a \in AdapterIds :
              ( /\ pending[a] > 0
                /\ Has(syncAdapters, a)
                /\ call'.op = "set"
                /\ parsePath(call'.path) # <<>>
                /\ ~ObjectIs(call'.value, call'.pv) ) =>
                 /\ state' # state
                 /\ Cardinality(IdxOf(log', "swap")) = 1
                 /\ Cardinality({j \in IdxOf(log', "push") : log'[j].id = a}) = 1
                 /\ \A j \in IdxOf(log', "push") : log'[j].s = state'
      ]_vars

\* C30: dispatch of a type with no registered action throws and leaves the
\* store as it was: same state, no save, push, event or listener call, and
\* onAction is not called for it, neither in the call nor later.
C30_UnknownActionRejected ==
    /\ (call.op = "dispatch" /\ call.id \notin ActionNames) =>
          /\ call.thrown
          /\ state = call.before
          /\ log = <<>>
          /\ ~dispatching.active
    /\ \A i \in Idx("onAction") : log[i].id \in ActionNames

\* dispatch("missing") on a store with a persistence adapter and a listener.
C30_Witness ==
    /\ call.op = "dispatch"
    /\ call.id = "missing"
    /\ call.thrown
    /\ persistence.present
    /\ Len(call.lsn) > 0
    /\ state = call.before
    /\ log = <<>>

----------------------------------------------------------------------------
(* Properties of dispatch, paths, merges and the event chain *)

\* C31: onAction is called only when a dispatch of a registered action
\* resumes after its handler, once, with the action's name, its payload and
\* the state current at that moment, the handler's commits included; a
\* dispatch whose handler resolved is waiting for that call; a dispatch whose
\* handler failed throws, and no onAction call is made or left waiting.
C31_OnActionAfterHandler ==
    /\ Idx("onAction") # {} => call.op = "dispatched"
    /\ call.op = "dispatched" =>
          /\ ~dispatching.active
          /\ Cardinality(Idx("onAction")) = 1
          /\ \A i \in Idx("onAction") :
                /\ log[i].id = call.id
                /\ log[i].id \in ActionNames
                /\ log[i].path = call.path
                /\ log[i].value = call.value
                /\ log[i].s = state
    /\ (call.op = "dispatch" /\ call.id \in ActionNames) =>
          /\ call.id = "fail" => call.thrown
          /\ dispatching.active <=> ~call.thrown
          /\ dispatching.active =>
                /\ dispatching.type = call.id
                /\ dispatching.path = call.path
                /\ dispatching.value = call.value

\* onAction after a handler that wrote its payload through context.set: the
\* state reported holds the value written.
C31_Witness ==
    /\ call.op = "dispatched"
    /\ call.id = "apply"
    /\ \E i \in Idx("onAction") :
          /\ log[i].s = state
          /\ getByPath(heap, log[i].s, call.path) = call.value
          /\ getByPath(heap, initialState, call.path) # call.value

\* The latest step was a set that committed a new value at a path with a
\* non-blank segment.
SetCommitted ==
    /\ call.op = "set"
    /\ parsePath(call.path) # <<>>
    /\ ~ObjectIs(call.value, call.pv)
    /\ state # call.before

\* C32, as stated: useSettingDirty is false at every path on a fresh store,
\* true at the path after a set that changed the value, and false at every
\* path after reset.
C32_DirtyLifecycle ==
    /\ call.op = "create" =>
          \A p \in Paths : ~useSettingDirty(heap, state, initialState, p)
    /\ SetCommitted => useSettingDirty(heap, state, initialState, call.path)
    /\ call.op = "reset" =>
          \A p \in Paths : ~useSettingDirty(heap, state, initialState, p)

\* C32, amended: useSettingDirty is false at every path on a fresh store
\* whose constructor loaded no persisted tree, true at the path after a set
\* that committed a value other than the initial value at the path, and
\* false at every path after reset.
C32_DirtyAgainstInitial ==
    /\ (call.op = "create" /\ ~(persistence.loadSync /\ Truthy(memory))) =>
          \A p \in Paths : ~useSettingDirty(heap, state, initialState, p)
    /\ (SetCommitted /\ ~ObjectIs(call.value, getByPath(heap, initialState, call.path))) =>
          useSettingDirty(heap, state, initialState, call.path)
    /\ call.op = "reset" =>
          \A p \in Paths : ~useSettingDirty(heap, state, initialState, p)

\* A reset of a store that was dirty: no path is dirty after it.
C32_Witness ==
    /\ call.op = "reset"
    /\ \E p \in Paths : useSettingDirty(heap, call.before, initialState, p)
    /\ \A p \in Paths : ~useSettingDirty(heap, state, initialState, p)

\* C33: getNextIndex wraps both ways.  For total > 0 and 0 <= i < total it
\* gives (i + 1) mod total for next and (i - 1) mod total for prev, a result
\* in 0..total-1, and next then prev, or prev then next, gives i back; it
\* gives -1 when total <= 0, and 0 when i is outside 0..total-1.  The move
\* just made followed the same rule.
C33_GetNextIndexWraps ==
    /\ \A i \in -2..(focus.total + 1) :
          LET next == getNextIndex(i, focus.total, "next")
              prev == getNextIndex(i, focus.total, "prev")
          IN IF focus.total <= 0 THEN next = -1 /\ prev = -1
             ELSE IF i < 0 \/ i >= focus.total THEN next = 0 /\ prev = 0
             ELSE /\ next = IF i = focus.total - 1 THEN 0 ELSE i + 1
                  /\ prev = IF i = 0 THEN focus.total - 1 ELSE i - 1
                  /\ next \in 0..(focus.total - 1)
                  /\ prev \in 0..(focus.total - 1)
                  /\ getNextIndex(next, focus.total, "prev") = i
                  /\ getNextIndex(prev, focus.total, "next") = i
    /\ focus.moves > 0 =>
          focus.currentIndex =
             IF focus.total <= 0 THEN -1
             ELSE IF focus.from < 0 \/ focus.from >= focus.total THEN 0
             ELSE IF focus.direction = "next"
                  THEN (IF focus.from = focus.total - 1 THEN 0 ELSE focus.from + 1)
                  ELSE (IF focus.from = 0 THEN focus.total - 1 ELSE focus.from - 1)

\* A prev from the first item of a list of several items: the focus is on
\* the last item.
C33_Witness ==
    /\ focus.moves > 0
    /\ focus.total > 1
    /\ focus.direction = "prev"
    /\ focus.from = 0
    /\ focus.currentIndex = focus.total - 1

\* Paths written and read in the properties of the path resolver: the paths
\* of the model, paths through a key that holds an array or a primitive, and
\* paths through keys that are missing.
ResolverPaths ==
    Paths \cup {<<"x">>, <<"x", "b">>, <<"a", "b", "c">>, <<"y", "b">>, <<"z", "", "y", "b ">>}

\* The cell at address out of heap h2 is what setByPath leaves at position k
\* of the path parts, where the input tree (in heap h) holds inValue: a new
\* mapping (an address above floor) with the keys of inValue, if that is a
\* mapping, in their order, and the key parts[k]; every other key holds what
\* it held in inValue; parts[k] holds value at the end of the path and the
\* next such cell before it.
RECURSIVE PathWritten(_, _, _, _, _, _, _, _)
PathWritten(h, h2, floor, inValue, out, parts, k, value) ==
    LET inMap == isObject(h, inValue)
        inF == IF inMap THEN h[inValue.v].f ELSE EmptyFields
        inOrd == IF inMap THEN h[inValue.v].ord ELSE <<>>
        key == parts[k]
    IN /\ out > floor
       /\ out \in 1..Len(h2)
       /\ h2[out].kind = "map"
       /\ DOMAIN h2[out].f = (DOMAIN inF) \cup {key}
       /\ h2[out].ord = IF key \in DOMAIN inF THEN inOrd ELSE Append(inOrd, key)
       /\ \A other \in (DOMAIN inF) \ {key} : h2[out].f[other] = inF[other]
       /\ IF k = Len(parts) THEN h2[out].f[key] = value
          ELSE /\ h2[out].f[key].t = "ref"
               /\ PathWritten(h, h2, floor,
                              IF key \in DOMAIN inF THEN inF[key] ELSE Undef,
                              h2[out].f[key].v, parts, k + 1, value)

\* C34: setByPath on a mapping and a path with a non-blank segment leaves
\* every object of the input as it was and returns a new root; each mapping
\* on the path is replaced by a copy with the same keys, a missing or
\* non-mapping intermediate by a new mapping with the next segment as its
\* only key; the last segment holds the value; every key off the path holds
\* the value, or the very object, it held in the input.  A committed set
\* leaves the state so written.
C34_WriteChangesOnlyPath ==
    /\ isObject(heap, state) =>
          \A p \in ResolverPaths : \A v \in LawValues :
             parsePath(p) # <<>> =>
                LET w == setByPath(heap, state, p, v)
                IN /\ \A a \in 1..Len(heap) : w.h[a] = heap[a]
                   /\ w.r.t = "ref"
                   /\ PathWritten(heap, w.h, Len(heap), state, w.r.v, parsePath(p), 1, v)
    /\ (SetCommitted /\ isObject(heap, call.before)) =>
          /\ state.t = "ref"
          /\ PathWritten(heap, heap, 0, call.before, state.v, parsePath(call.path), 1,
                         call.value)

\* A committed set of a.b on a tree whose a holds a primitive or null, next
\* to a key x that holds an array: a holds a new mapping with the one key b,
\* and x holds the same array as before.
C34_Witness ==
    /\ SetCommitted
    /\ parsePath(call.path) = <<"a", "b">>
    /\ isObject(heap, call.before)
    /\ ~isObject(heap, getByPath(heap, call.before, <<"a">>))
    /\ isArray(heap, getByPath(heap, call.before, <<"x">>))
    /\ getByPath(heap, state, <<"x">>) = getByPath(heap, call.before, <<"x">>)
    /\ DOMAIN heap[getByPath(heap, state, <<"a">>).v].f = {"b"}

\* Values read from: the current state, the value its key x holds, and values
\* that are not objects.
ReadInputs == {state, getByPath(heap, state, <<"x">>), Null, Prim(2), Undef}

ReadPaths == ResolverPaths \cup {<<"x", "0">>, <<" ">>, <<"a", " ", "b ">>}

KeyRank(prefix, key) ==
    LET ord == heap[getByPath(heap, call.value, prefix).v].ord
    IN CHOOSE i \in 1..Len(ord) : ord[i] = key

\* Path p is met before path q by the walk over the incoming tree: where
\* they part, p's key comes first among incoming's keys.
MetBefore(p, q) ==
    \E d \in 1..Len(p) :
       /\ d <= Len(q)
       /\ SubSeq(p, 1, d - 1) = SubSeq(q, 1, d - 1)
       /\ p[d] # q[d]
       /\ KeyRank(SubSeq(p, 1, d - 1), p[d]) < KeyRank(SubSeq(p, 1, d - 1), q[d])

\* C36: the conflicts of a skip-conflicts import list no path twice and no
\* path together with a path below it; they are in the order in which the
\* walk over incoming's keys meets them; and where one tree holds a mapping
\* and the other a value that is not a mapping, inside mappings of both,
\* that path is listed and the state keeps what current held there.
C36_ConflictsInWalkOrder ==
    Imported("skip-conflicts") =>
       LET c == call.res.conflicts
       IN /\ \A i \in 1..Len(c) : \A j \in 1..Len(c) :
                i < j => /\ c[i] # c[j]
                         /\ ~IsPrefix(c[i], c[j])
                         /\ ~IsPrefix(c[j], c[i])
                         /\ MetBefore(c[i], c[j])
          /\ \A p \in PathsOf(IncomingNodes) :
                ( /\ p # <<>>
                  /\ Reached(BeforeNodes, IncomingNodes, p)
                  /\ Defined(BeforeNodes, p)
                  /\ (KindAt(BeforeNodes, p) = "map") # (KindAt(IncomingNodes, p) = "map") ) =>
                   /\ InConflicts(p)
                   /\ Sub(StateNodes, p) = Sub(BeforeNodes, p)

\* A skip-conflicts import that reports x before a, the order of incoming's
\* keys, where current has a before x, and where a is a mapping in current
\* and not in incoming.
C36_Witness ==
    /\ Imported("skip-conflicts")
    /\ call.res.conflicts = << <<"x">>, <<"a">> >>
    /\ heap[call.before.v].ord = <<"a", "x">>
    /\ KindAt(BeforeNodes, <<"a">>) = "map"
    /\ KindAt(IncomingNodes, <<"a">>) # "map"

\* The onStateChange events of the latest step, in the order of the calls.
StateChanges == SelectSeq(log, LAMBDA ev : ev.e = "stateChange")

\* C37: the onStateChange events of a step that did not throw form a chain
\* from the state the step began with to the state it ended with: the first
\* event's previousState is the state before the step (for the first commit
\* of a store, the state the constructor left), each later event's
\* previousState is the state of the event before it, no event has state and
\* previousState the same, and the last event's state is getState(); a step
\* with no event leaves the state as it was.  This covers the commits that a
\* listener or the onStateChange callback makes inside a commit.
C37_EventsChain ==
    (call.op # "create" /\ ~call.thrown) =>
       LET evs == StateChanges
       IN IF evs = <<>> THEN state = call.before
          ELSE /\ evs[1].p = call.before
               /\ \A i \in 1..(Len(evs) - 1) : evs[i + 1].p = evs[i].s
               /\ \A i \in 1..Len(evs) : evs[i].s # evs[i].p
               /\ evs[Len(evs)].s = state

\* A set on a store whose onStateChange callback calls setState and whose
\* listener calls reset(): three chained events in one call, set, setState,
\* reset.
C37_Witness ==
    /\ call.op = "set"
    /\ ~call.thrown
    /\ Len(StateChanges) = 3
    /\ StateChanges[1].src = "set"
    /\ StateChanges[2].src = "setState"
    /\ StateChanges[3].src = "reset"
    /\ StateChanges[2].p = StateChanges[1].s
    /\ StateChanges[3].p = StateChanges[2].s
    /\ state = initialState

\* The swaps of the latest step made by set.
SetSwaps == {k \in Idx("swap") : log[k].src = "set"}

\* C38: onChange is called only in a set call that committed, once, after
\* the onStateChange call and the listener calls of that commit, with the
\* committed snapshot as its state; a set call that commits nothing (equal
\* value, or a path with no non-blank segment) calls no onChange.
C38_OnChangeOncePerCommittedSet ==
    /\ Idx("onChange") # {} =>
          (call.op = "set" \/ (call.op = "dispatch" /\ call.id = "apply"))
    /\ Cardinality(Idx("onChange")) = Cardinality(SetSwaps)
    /\ \A i \in Idx("onChange") :
          /\ \E k \in SetSwaps : log[i].s = log[k].s
          /\ \A j \in Idx("stateChange") \cup Idx("notify") : j < i
          /\ Idx("stateChange") # {}

\* C39: an adapter whose syncSettings failed (its pull rejected, or the
\* pulled tree failed validation) is not in the active set, and no commit is
\* pushed to it.
C39_FailedAdapterNotActive ==
    \A a \in AdapterIds :
       sessions[a].phase = "failed" =>
          /\ ~Has(syncAdapters, a)
          /\ \A j \in Idx("push") : log[j].id # a

\* C40: when a set has committed and been saved while hydrate was waiting
\* for load, the state after hydrate resumes is still the tree last saved to
\* the persistence adapter.
C40_HydrateKeepsSavedState ==
    [][ ( /\ hydration.active
          /\ SetCommitted
          /\ persistence.save = "ok"
          /\ memory = state
          /\ call'.op = "hydrated" ) =>
           (state' = memory' /\ memory' = memory) ]_vars

====
